---- MODULE Spec2Model ----
(***************************************************************************)
(* The Gun component of src/Gun.ts as a state machine: the ammo counters   *)
(* with their clamping setters, the firing state machine (cooldown, fire   *)
(* confirmation delay, burst interval, auto-fire interval, reload timers)  *)
(* and the handlers that drive them.  Timers are untimed: a pending timer  *)
(* may fire at any moment, so every real schedule is one of the model's    *)
(* interleavings.                                                          *)
(***************************************************************************)
EXTENDS Integers, Sequences, FiniteSets, TLC

VARIABLES
  props,                \* this.props: the configuration, fixed at construction
  loadedAmmo,           \* _loadedAmmo
  reserveAmmo,          \* _reserveAmmo
  attackCooldown,       \* attackCooldown
  attackCooldownTimer,  \* TRUE while the attackRate timeout is pending
  reloadTimer,          \* "none", "delay" (500ms auto-reload) or "window" (1000ms)
  autoAttackTimer,      \* TRUE while the auto-fire interval is running
  fireDelay,            \* TRUE while the 50ms fire confirmation timeout is pending
  bulletBurstTimer,     \* TRUE while the burst interval is running
  currentBurstCount,    \* currentBurstCount
  grabbed,              \* mainHand is set: inputs and the grantAmmo handler are connected
  attackHeld,           \* the attack input event delivered last was a press
  disposed,             \* dispose() has run: every subscription is disconnected
  projectiles,          \* projectiles launched whose hit or miss callback has not arrived
  impactFX,             \* impactFX: the pool of impact effect groups, each a set of particle handles
  missFX,               \* missFX: the pool of miss effect groups
  nextImpactFXIdx,      \* nextImpactFXIdx
  nextMissFXIdx,        \* nextMissFXIdx
  playing,              \* the particle handles played and not stopped since
  raycastHit,           \* what the raycaster returns to the next fireWithRaycast
  despawned,            \* the handles the handler that ran last asked the asset spawner to despawn
  async,                \* this.async: for each handle field, the timers of the engine still pending
  connected,            \* the grantAmmo handlers connected, and whether this.grantAmmo is one of them
  spawners,             \* the spawn controllers of the SpawnedAssets component of the asset spawner
  inFlight,             \* the syncImpactFX and syncMissFX events sent to the entity and not yet delivered
  owner,                \* who owns the entity, and so where its script instance runs
  lastOp,               \* the handler that ran last
  lastArg,              \* pressed (1 or 0) of onInputAttack, the value of a direct assignment, else 0
  emitted,              \* what that handler sent or played, in order
  tally                 \* scenario bookkeeping: shots accepted and fired since Init

vars == <<props, loadedAmmo, reserveAmmo, attackCooldown, attackCooldownTimer,
          reloadTimer, autoAttackTimer, fireDelay, bulletBurstTimer,
          currentBurstCount, grabbed, attackHeld, disposed, projectiles,
          impactFX, missFX, nextImpactFXIdx, nextMissFXIdx, playing, raycastHit,
          despawned, async, connected, spawners, inFlight, owner,
          lastOp, lastArg, emitted, tally>>

(* Bounds of the model. *)
MaxCount == 2
MaxPerFire == 2
MaxBurst == 3
MaxGrant == 1

Max(a, b) == IF a >= b THEN a ELSE b
Min(a, b) == IF a <= b THEN a ELSE b

(* The configurations: counts are non-negative; the owner's device decides *)
(* whether a shot waits for the fire confirmation delay.  The weapons of   *)
(* the general specification have neither a raycaster nor a projectile     *)
(* launcher nor an asset spawner (preStart only logs an error): their      *)
(* firing state machine is that of every weapon; the projectile weapons    *)
(* are those of PropsShots, the weapons of every hit mode those of         *)
(* PropsHits.                                                              *)
Props ==
  [clipSize : 0..MaxCount, maxAmmo : 0..MaxCount, ammoPerFire : (0 - 1)..MaxPerFire,
   autoAttack : BOOLEAN, autoReload : BOOLEAN,
   bulletBurstPerFire : 1..MaxBurst, ownerIsVR : BOOLEAN,
   projectileLauncher : {FALSE}, raycaster : {FALSE}, assetSpawner : {FALSE}]

(* The fields of the component, as one record the methods transform. *)
This ==
  [loadedAmmo |-> loadedAmmo, reserveAmmo |-> reserveAmmo,
   attackCooldown |-> attackCooldown, attackCooldownTimer |-> attackCooldownTimer,
   reloadTimer |-> reloadTimer, autoAttackTimer |-> autoAttackTimer,
   fireDelay |-> fireDelay, bulletBurstTimer |-> bulletBurstTimer,
   currentBurstCount |-> currentBurstCount,
   impactFX |-> impactFX, missFX |-> missFX,
   nextImpactFXIdx |-> nextImpactFXIdx, nextMissFXIdx |-> nextMissFXIdx,
   playing |-> playing, projectiles |-> projectiles, fx |-> {},
   rootEntities |-> {}, async |-> async, connected |-> connected,
   spawners |-> spawners, inFlight |-> inFlight, owner |-> owner, out |-> <<>>]

(* The fields as the class initialisers leave them. *)
Fresh ==
  [loadedAmmo |-> 0, reserveAmmo |-> 0,
   attackCooldown |-> FALSE, attackCooldownTimer |-> FALSE,
   reloadTimer |-> "none", autoAttackTimer |-> FALSE,
   fireDelay |-> FALSE, bulletBurstTimer |-> FALSE,
   currentBurstCount |-> 0,
   impactFX |-> <<>>, missFX |-> <<>>,
   nextImpactFXIdx |-> 0, nextMissFXIdx |-> 0,
   playing |-> {}, projectiles |-> 0, fx |-> {},
   rootEntities |-> {},
   async |-> [attackCooldownTimer |-> 0, reloadTimer |-> 0, autoAttackTimer |-> 0,
              fireDelay |-> 0, bulletBurstTimer |-> 0],
   connected |-> [handlers |-> 0, grantAmmo |-> FALSE],
   spawners |-> <<>>, inFlight |-> {}, owner |-> "server",
   out |-> <<>>]

Ev(name, current, previous) == [ev |-> name, current |-> current, previous |-> previous]
Cue(name) == Ev(name, 0, 0)

Send(g, e) == [g EXCEPT !.out = Append(@, e)]

(* this.async.setTimeout and setInterval: one more pending timer for the     *)
(* handle field.  clearTimeout and clearInterval of the handle in the field: *)
(* a pending timer of the field is pending no more.  elapsed: a timeout of   *)
(* the field has run out and its callback starts.                            *)
setTimeout(g, field) == [g EXCEPT !.async[field] = @ + 1]
setInterval(g, field) == setTimeout(g, field)
clearTimeout(g, field) == [g EXCEPT !.async[field] = Max(0, @ - 1)]
clearInterval(g, field) == clearTimeout(g, field)
elapsed(g, field) == clearTimeout(g, field)

(* this.grantAmmo = this.connectNetworkEvent(player, GunEvents.grantAmmo,   *)
(* ...): one more handler connected, and the field holds its subscription.  *)
(* this.grantAmmo?.disconnect(): the subscription the field holds, if it is *)
(* still connected, is connected no more.                                   *)
connectNetworkEvent(g) ==
  [g EXCEPT !.connected = [handlers |-> @.handlers + 1, grantAmmo |-> TRUE]]

disconnect(g) ==
  IF g.connected.grantAmmo
    THEN [g EXCEPT !.connected = [handlers |-> @.handlers - 1, grantAmmo |-> FALSE]]
    ELSE g

(* Mutant: the event test compares the assigned value, not the stored one. *)
SetLoadedAmmoComparesAssigned(g, value) ==
  LET ammoToGrant == Min(Max(0, props.clipSize), value)
      previous == g.loadedAmmo
      stored == Max(0, ammoToGrant)
      g1 == [g EXCEPT !.loadedAmmo = stored]
  IN IF previous # value
       THEN Send(g1, Ev("loadedAmmoChanged", stored, previous))
       ELSE g1

SetLoadedAmmo(g, value) ==
  LET ammoToGrant == Min(Max(0, props.clipSize), value)
      previous == g.loadedAmmo
      stored == Max(0, ammoToGrant)
      g1 == [g EXCEPT !.loadedAmmo = stored]
  IN IF previous # stored
       THEN Send(g1, Ev("loadedAmmoChanged", stored, previous))
       ELSE g1

(* Mutant: the reserve is limited by maxAmmo alone, not by the loaded ammo. *)
SetReserveAmmoIgnoresLoaded(g, value) ==
  LET ammoToGrant == Min(value, Max(0, props.maxAmmo))
      previous == g.reserveAmmo
      stored == Max(0, ammoToGrant)
      g1 == [g EXCEPT !.reserveAmmo = stored]
  IN IF previous # stored
       THEN Send(g1, Ev("reserveAmmoChanged", stored, previous))
       ELSE g1

SetReserveAmmo(g, value) ==
  LET ammoToGrant == Min(value, Max(0, props.maxAmmo) - g.loadedAmmo)
      previous == g.reserveAmmo
      stored == Max(0, ammoToGrant)
      g1 == [g EXCEPT !.reserveAmmo = stored]
  IN IF previous # stored
       THEN Send(g1, Ev("reserveAmmoChanged", stored, previous))
       ELSE g1

(* Mutant: only a negative ammoPerFire counts as unlimited. *)
hasUnlimitedAmmoOnlyNegative == props.ammoPerFire < 0

hasUnlimitedAmmo == props.ammoPerFire <= 0

preStart(g, startingAmmo, startingReserveAmmo) ==
  SetReserveAmmo(SetLoadedAmmo(g, startingAmmo), startingReserveAmmo)

resetReload(g) ==
  IF g.reloadTimer # "none"
    THEN [clearTimeout(g, "reloadTimer") EXCEPT !.reloadTimer = "none"]
    ELSE g

resetBurst(g) ==
  IF g.bulletBurstTimer
    THEN [clearInterval(g, "bulletBurstTimer")
            EXCEPT !.currentBurstCount = 0, !.bulletBurstTimer = FALSE]
    ELSE [g EXCEPT !.currentBurstCount = 0]

(* Mutant: the handle of the auto-fire interval is dropped, not cleared. *)
resetAutoAttackDropsHandle(g) == [g EXCEPT !.autoAttackTimer = FALSE]

resetAutoAttack(g) ==
  IF g.autoAttackTimer
    THEN [clearInterval(g, "autoAttackTimer") EXCEPT !.autoAttackTimer = FALSE]
    ELSE g

(* Mutant: a clip holding exactly the ammo of one shot cannot fire. *)
canAttackNeedsSpare(g) ==
  IF g.attackCooldown THEN FALSE
  ELSE LET ammoPerAttack == Max(0, props.ammoPerFire)
       IN IF ammoPerAttack = 0 THEN TRUE
          ELSE IF ammoPerAttack >= g.loadedAmmo THEN FALSE
          ELSE TRUE

(* Mutant: the loaded ammo is not compared with the ammo a shot needs. *)
canAttackIgnoresAmmo(g) ==
  IF g.attackCooldown THEN FALSE ELSE TRUE

canAttack(g) ==
  IF g.attackCooldown THEN FALSE
  ELSE LET ammoPerAttack == Max(0, props.ammoPerFire)
       IN IF ammoPerAttack = 0 THEN TRUE
          ELSE IF ammoPerAttack > g.loadedAmmo THEN FALSE
          ELSE TRUE

(* Mutant: the burst counts the first shot again. *)
triggerBurstCountsFirstShot(g) ==
  IF props.bulletBurstPerFire <= 1 THEN g
  ELSE IF g.bulletBurstTimer THEN g
  ELSE IF g.loadedAmmo < props.ammoPerFire THEN g
  ELSE [setInterval(g, "bulletBurstTimer")
         EXCEPT !.currentBurstCount = Max(1, props.bulletBurstPerFire),
                 !.bulletBurstTimer = TRUE]

triggerBurst(g) ==
  IF props.bulletBurstPerFire <= 1 THEN g
  ELSE IF g.bulletBurstTimer THEN g
  ELSE IF g.loadedAmmo < props.ammoPerFire THEN g
  ELSE [setInterval(g, "bulletBurstTimer")
         EXCEPT !.currentBurstCount = Max(1, props.bulletBurstPerFire - 1),
                 !.bulletBurstTimer = TRUE]

(* Mutant: the auto-fire interval is never started. *)
triggerAutoAttackNever(g) == g

triggerAutoAttack(g) ==
  IF ~props.autoAttack THEN g
  ELSE IF g.autoAttackTimer THEN g
  ELSE [setInterval(g, "autoAttackTimer") EXCEPT !.autoAttackTimer = TRUE]

(* The handles of every group of a pool. *)
Handles(pool) == UNION {pool[i] : i \in 1..Len(pool)}

stopFX(g, spawnedFX) == [g EXCEPT !.playing = @ \ Handles(spawnedFX)]

(* Mutant: an index past the end takes the last group, it does not wrap. *)
getImpactFXDoesNotWrap(g) ==
  IF Len(g.impactFX) = 0 THEN [g EXCEPT !.fx = {}]
  ELSE LET index == Min(g.nextImpactFXIdx, Len(g.impactFX) - 1)
       IN [g EXCEPT !.nextImpactFXIdx = index + 1,
                    !.fx = g.impactFX[index + 1],
                    !.playing = @ \ g.impactFX[index + 1]]

(* getImpactFX, getMissFX: the next group of the pool in turn, stopped; the *)
(* group is left in fx, the value returned.                                 *)
getImpactFX(g) ==
  IF Len(g.impactFX) = 0 THEN [g EXCEPT !.fx = {}]
  ELSE LET index == g.nextImpactFXIdx % Len(g.impactFX)
       IN [g EXCEPT !.nextImpactFXIdx = index + 1,
                    !.fx = g.impactFX[index + 1],
                    !.playing = @ \ g.impactFX[index + 1]]

getMissFX(g) ==
  IF Len(g.missFX) = 0 THEN [g EXCEPT !.fx = {}]
  ELSE LET index == g.nextMissFXIdx % Len(g.missFX)
       IN [g EXCEPT !.nextMissFXIdx = index + 1,
                    !.fx = g.missFX[index + 1],
                    !.playing = @ \ g.missFX[index + 1]]

(* triggerFX plays every handle of the group it is given; name tells the *)
(* pool the group came from.                                             *)
triggerFX(g, name) ==
  IF g.fx = {} THEN g
  ELSE Send([g EXCEPT !.playing = @ \cup g.fx], Cue(name))

sendDamageEvent(g) == Send(g, Cue("takeDamage"))

(* The results of a raycast: a player or entity, static geometry, nothing. *)
RaycastHits == {"Target", "Static", "none"}

(* Mutant: a trace that hit anything, static geometry included, sends damage. *)
fireWithRaycastDamagesAnyHit(g) ==
  IF ~props.raycaster THEN g
  ELSE LET g1 == Send(g, Cue("fireWithRaycast"))
           g2 == IF ~props.projectileLauncher
                   THEN IF raycastHit # "none"
                          THEN triggerFX(getImpactFX(g1), "impactFX")
                          ELSE triggerFX(getMissFX(g1), "missFX")
                   ELSE [g1 EXCEPT !.projectiles = @ + 1]
       IN IF raycastHit # "none" THEN sendDamageEvent(g2) ELSE g2

(* fireWithRaycast: without a launcher the trace triggers the impact or the *)
(* miss group; with one the projectile is launched, at once or after 1ms,   *)
(* and its callback triggers the group.  A trace that hit a player or an    *)
(* entity sends the damage.                                                 *)
fireWithRaycast(g) ==
  IF ~props.raycaster THEN g
  ELSE LET g1 == Send(g, Cue("fireWithRaycast"))
           g2 == IF ~props.projectileLauncher
                   THEN IF raycastHit # "none"
                          THEN triggerFX(getImpactFX(g1), "impactFX")
                          ELSE triggerFX(getMissFX(g1), "missFX")
                   ELSE [g1 EXCEPT !.projectiles = @ + 1]
       IN IF raycastHit = "Target" THEN sendDamageEvent(g2) ELSE g2

(* fireWithProjectile: the projectile is launched after 1ms. *)
fireWithProjectile(g) ==
  IF ~props.projectileLauncher THEN g
  ELSE [Send(g, Cue("fireWithProjectile")) EXCEPT !.projectiles = @ + 1]

(* Mutant: a weapon with neither raycaster nor launcher plays the miss effect. *)
finishFiringPlaysMissFX(g) ==
  LET g0 == Send([g EXCEPT !.fireDelay = FALSE], Cue("fire"))
      g1 == IF props.raycaster THEN fireWithRaycast(g0)
            ELSE IF props.projectileLauncher THEN fireWithProjectile(g0)
            ELSE triggerFX(getMissFX(g0), "missFX")
      g2 == [setTimeout(IF g1.attackCooldownTimer
                          THEN clearTimeout(g1, "attackCooldownTimer") ELSE g1,
                        "attackCooldownTimer")
               EXCEPT !.attackCooldownTimer = TRUE]
      g3 == IF g2.loadedAmmo < props.ammoPerFire
              THEN resetAutoAttack(resetBurst(g2))
              ELSE triggerAutoAttack(triggerBurst(g2))
  IN IF props.autoReload /\ g3.loadedAmmo = 0
       THEN [setTimeout(resetReload(g3), "reloadTimer") EXCEPT !.reloadTimer = "delay"]
       ELSE g3

(* Mutant: the projectile launcher takes precedence over the raycaster. *)
finishFiringPrefersLauncher(g) ==
  LET g0 == Send([g EXCEPT !.fireDelay = FALSE], Cue("fire"))
      g1 == IF props.projectileLauncher THEN fireWithProjectile(g0)
            ELSE IF props.raycaster THEN fireWithRaycast(g0)
            ELSE g0
      g2 == [setTimeout(IF g1.attackCooldownTimer
                          THEN clearTimeout(g1, "attackCooldownTimer") ELSE g1,
                        "attackCooldownTimer")
               EXCEPT !.attackCooldownTimer = TRUE]
      g3 == IF g2.loadedAmmo < props.ammoPerFire
              THEN resetAutoAttack(resetBurst(g2))
              ELSE triggerAutoAttack(triggerBurst(g2))
  IN IF props.autoReload /\ g3.loadedAmmo = 0
       THEN [setTimeout(resetReload(g3), "reloadTimer") EXCEPT !.reloadTimer = "delay"]
       ELSE g3

(* Mutant: an emptied clip schedules no reload. *)
finishFiringWithoutAutoReload(g) ==
  LET g0 == Send([g EXCEPT !.fireDelay = FALSE], Cue("fire"))
      g1 == IF props.raycaster THEN fireWithRaycast(g0)
            ELSE IF props.projectileLauncher THEN fireWithProjectile(g0)
            ELSE g0
      g2 == [setTimeout(IF g1.attackCooldownTimer
                          THEN clearTimeout(g1, "attackCooldownTimer") ELSE g1,
                        "attackCooldownTimer")
               EXCEPT !.attackCooldownTimer = TRUE]
  IN IF g2.loadedAmmo < props.ammoPerFire
       THEN resetAutoAttack(resetBurst(g2))
       ELSE triggerAutoAttack(triggerBurst(g2))

(* Mutant: a shot that leaves too little ammo keeps the burst and auto-fire *)
(* intervals running.                                                       *)
finishFiringKeepsIntervals(g) ==
  LET g0 == Send([g EXCEPT !.fireDelay = FALSE], Cue("fire"))
      g1 == IF props.raycaster THEN fireWithRaycast(g0)
            ELSE IF props.projectileLauncher THEN fireWithProjectile(g0)
            ELSE g0
      g2 == [setTimeout(IF g1.attackCooldownTimer
                          THEN clearTimeout(g1, "attackCooldownTimer") ELSE g1,
                        "attackCooldownTimer")
               EXCEPT !.attackCooldownTimer = TRUE]
      g3 == triggerAutoAttack(triggerBurst(g2))
  IN IF props.autoReload /\ g3.loadedAmmo = 0
       THEN [setTimeout(resetReload(g3), "reloadTimer") EXCEPT !.reloadTimer = "delay"]
       ELSE g3

(* finishFiring: "fire" stands for the muzzle effects and the trace or launch. *)
finishFiring(g) ==
  LET g0 == Send([g EXCEPT !.fireDelay = FALSE], Cue("fire"))
      g1 == IF props.raycaster THEN fireWithRaycast(g0)
            ELSE IF props.projectileLauncher THEN fireWithProjectile(g0)
            ELSE g0
      g2 == [setTimeout(IF g1.attackCooldownTimer
                          THEN clearTimeout(g1, "attackCooldownTimer") ELSE g1,
                        "attackCooldownTimer")
               EXCEPT !.attackCooldownTimer = TRUE]
      g3 == IF g2.loadedAmmo < props.ammoPerFire
              THEN resetAutoAttack(resetBurst(g2))
              ELSE triggerAutoAttack(triggerBurst(g2))
  IN IF props.autoReload /\ g3.loadedAmmo = 0
       THEN [setTimeout(resetReload(g3), "reloadTimer") EXCEPT !.reloadTimer = "delay"]
       ELSE g3

(* Mutant: a pending fire confirmation delay does not stop a second attack. *)
triggerAttackIgnoresFireDelay(g) ==
  IF ~canAttack(g)
    THEN LET g1 == resetAutoAttack(resetBurst(g))
         IN IF g1.loadedAmmo < props.ammoPerFire
              THEN Send(g1, Cue("outOfAmmoSFX"))
              ELSE g1
  ELSE LET g1 == Send([g EXCEPT !.attackCooldown = TRUE], Cue("accepted"))
           g2 == IF props.ammoPerFire > 0
                   THEN SetLoadedAmmo(g1, g1.loadedAmmo - props.ammoPerFire)
                   ELSE g1
       IN IF g2.currentBurstCount > 0 THEN finishFiring(g2)
          ELSE IF props.ownerIsVR THEN finishFiring(g2)
          ELSE [setTimeout(g2, "fireDelay") EXCEPT !.fireDelay = TRUE]

(* Mutant: the ammo of a shot fired at once is deducted after finishFiring. *)
triggerAttackDeductsAfterFiring(g) ==
  IF ~canAttack(g)
    THEN LET g1 == resetAutoAttack(resetBurst(g))
         IN IF g1.loadedAmmo < props.ammoPerFire
              THEN Send(g1, Cue("outOfAmmoSFX"))
              ELSE g1
  ELSE IF g.fireDelay THEN g
  ELSE LET g1 == Send([g EXCEPT !.attackCooldown = TRUE], Cue("accepted"))
           g2 == IF g1.currentBurstCount > 0 THEN finishFiring(g1)
                 ELSE IF props.ownerIsVR THEN finishFiring(g1)
                 ELSE [setTimeout(g1, "fireDelay") EXCEPT !.fireDelay = TRUE]
       IN IF props.ammoPerFire > 0
            THEN SetLoadedAmmo(g2, g2.loadedAmmo - props.ammoPerFire)
            ELSE g2

(* Mutant: every rejected attack plays the out-of-ammo cue. *)
triggerAttackAlwaysCues(g) ==
  IF ~canAttack(g)
    THEN Send(resetAutoAttack(resetBurst(g)), Cue("outOfAmmoSFX"))
  ELSE IF g.fireDelay THEN g
  ELSE LET g1 == Send([g EXCEPT !.attackCooldown = TRUE], Cue("accepted"))
           g2 == IF props.ammoPerFire > 0
                   THEN SetLoadedAmmo(g1, g1.loadedAmmo - props.ammoPerFire)
                   ELSE g1
       IN IF g2.currentBurstCount > 0 THEN finishFiring(g2)
          ELSE IF props.ownerIsVR THEN finishFiring(g2)
          ELSE [setTimeout(g2, "fireDelay") EXCEPT !.fireDelay = TRUE]

(* triggerAttack: "accepted" marks the point past both early returns. *)
triggerAttack(g) ==
  IF ~canAttack(g)
    THEN LET g1 == resetAutoAttack(resetBurst(g))
         IN IF g1.loadedAmmo < props.ammoPerFire
              THEN Send(g1, Cue("outOfAmmoSFX"))
              ELSE g1
  ELSE IF g.fireDelay THEN g
  ELSE LET g1 == Send([g EXCEPT !.attackCooldown = TRUE], Cue("accepted"))
           g2 == IF props.ammoPerFire > 0
                   THEN SetLoadedAmmo(g1, g1.loadedAmmo - props.ammoPerFire)
                   ELSE g1
       IN IF g2.currentBurstCount > 0 THEN finishFiring(g2)
          ELSE IF props.ownerIsVR THEN finishFiring(g2)
          ELSE [setTimeout(g2, "fireDelay") EXCEPT !.fireDelay = TRUE]

(* Mutant: a reload cancels the burst and auto-fire before its tests. *)
triggerReloadResetsFirst(g) ==
  LET g1 == resetAutoAttack(resetBurst(g))
  IN IF g.reloadTimer # "none" THEN g1
     ELSE IF hasUnlimitedAmmo THEN g1
     ELSE LET reloadAmount == Min(props.clipSize - g.loadedAmmo, g.reserveAmmo)
          IN IF reloadAmount = 0 THEN g1
             ELSE IF reloadAmount < props.ammoPerFire THEN g1
             ELSE LET g2 == [setTimeout(g1, "reloadTimer") EXCEPT !.reloadTimer = "window"]
                      g3 == SetLoadedAmmo(g2, g2.loadedAmmo + reloadAmount)
                      g4 == SetReserveAmmo(g3, g3.reserveAmmo - reloadAmount)
                  IN Send(g4, Cue("reloadSFX"))

(* Mutant: the amount moved is the whole reserve, whatever room the clip has. *)
triggerReloadTakesWholeReserve(g) ==
  IF g.reloadTimer # "none" THEN g
  ELSE IF hasUnlimitedAmmo THEN g
  ELSE LET reloadAmount == g.reserveAmmo
       IN IF reloadAmount = 0 THEN g
          ELSE IF reloadAmount < props.ammoPerFire THEN g
          ELSE LET g1 == resetAutoAttack(resetBurst(g))
                   g2 == [setTimeout(g1, "reloadTimer") EXCEPT !.reloadTimer = "window"]
                   g3 == SetLoadedAmmo(g2, g2.loadedAmmo + reloadAmount)
                   g4 == SetReserveAmmo(g3, g3.reserveAmmo - reloadAmount)
               IN Send(g4, Cue("reloadSFX"))

(* Mutant: a transfer smaller than ammoPerFire is carried out too. *)
triggerReloadAllowsPartial(g) ==
  IF g.reloadTimer # "none" THEN g
  ELSE IF hasUnlimitedAmmo THEN g
  ELSE LET reloadAmount == Min(props.clipSize - g.loadedAmmo, g.reserveAmmo)
       IN IF reloadAmount = 0 THEN g
          ELSE LET g1 == resetAutoAttack(resetBurst(g))
                   g2 == [setTimeout(g1, "reloadTimer") EXCEPT !.reloadTimer = "window"]
                   g3 == SetLoadedAmmo(g2, g2.loadedAmmo + reloadAmount)
                   g4 == SetReserveAmmo(g3, g3.reserveAmmo - reloadAmount)
               IN Send(g4, Cue("reloadSFX"))

triggerReload(g) ==
  IF g.reloadTimer # "none" THEN g
  ELSE IF hasUnlimitedAmmo THEN g
  ELSE LET reloadAmount == Min(props.clipSize - g.loadedAmmo, g.reserveAmmo)
       IN IF reloadAmount = 0 THEN g
          ELSE IF reloadAmount < props.ammoPerFire THEN g
          ELSE LET g1 == resetAutoAttack(resetBurst(g))
                   g2 == [setTimeout(g1, "reloadTimer") EXCEPT !.reloadTimer = "window"]
                   g3 == SetLoadedAmmo(g2, g2.loadedAmmo + reloadAmount)
                   g4 == SetReserveAmmo(g3, g3.reserveAmmo - reloadAmount)
               IN Send(g4, Cue("reloadSFX"))

Count(out, name) == Cardinality({i \in 1..Len(out) : out[i].ev = name})
Has(out, name) == \E i \in 1..Len(out) : out[i].ev = name

(* The general specification keeps no tally; a scenario counts the calls *)
(* of triggerAttack that got past its early returns and the calls of    *)
(* finishFiring.                                                        *)
NoTally ==
  [counting |-> FALSE, startLoaded |-> 0, accepted |-> 0, fired |-> 0, damage |-> 0]

(* Store the fields a handler leaves, and what it emitted; the record the  *)
(* handler leaves is computed once.                                       *)
Becomes(g, op, arg) ==
  \E left \in {g} :
    /\ loadedAmmo' = left.loadedAmmo
    /\ reserveAmmo' = left.reserveAmmo
    /\ attackCooldown' = left.attackCooldown
    /\ attackCooldownTimer' = left.attackCooldownTimer
    /\ reloadTimer' = left.reloadTimer
    /\ autoAttackTimer' = left.autoAttackTimer
    /\ fireDelay' = left.fireDelay
    /\ bulletBurstTimer' = left.bulletBurstTimer
    /\ currentBurstCount' = left.currentBurstCount
    /\ emitted' = left.out
    /\ despawned' = left.rootEntities
    /\ async' = left.async
    /\ connected' = left.connected
    /\ spawners' = left.spawners
    /\ inFlight' = left.inFlight
    /\ owner' = left.owner
    /\ attackHeld' = IF op = "onInputAttack" THEN arg = 1 ELSE attackHeld
    /\ projectiles' = left.projectiles
    /\ impactFX' = left.impactFX
    /\ missFX' = left.missFX
    /\ nextImpactFXIdx' = left.nextImpactFXIdx
    /\ nextMissFXIdx' = left.nextMissFXIdx
    /\ playing' = left.playing
    /\ raycastHit' \in IF props.raycaster THEN RaycastHits ELSE {"none"}
    /\ lastOp' = op
    /\ lastArg' = arg
    /\ tally' = IF tally.counting
                  THEN [tally EXCEPT !.accepted = @ + Count(left.out, "accepted"),
                                     !.fired = @ + Count(left.out, "fire"),
                                     !.damage = @ + Count(left.out, "takeDamage")]
                  ELSE tally
    /\ props' = props

(* The state of a new instance whose fields are those of g. *)
StartedAs(g, tallying) ==
  \E new \in {g} :
     /\ grabbed = FALSE
     /\ attackHeld = FALSE
     /\ disposed = FALSE
     /\ projectiles = new.projectiles
     /\ impactFX = new.impactFX
     /\ missFX = new.missFX
     /\ nextImpactFXIdx = new.nextImpactFXIdx
     /\ nextMissFXIdx = new.nextMissFXIdx
     /\ playing = new.playing
     /\ raycastHit \in IF props.raycaster THEN RaycastHits ELSE {"none"}
     /\ lastOp = "preStart"
     /\ lastArg = 0
     /\ loadedAmmo = new.loadedAmmo
     /\ reserveAmmo = new.reserveAmmo
     /\ attackCooldown = new.attackCooldown
     /\ attackCooldownTimer = new.attackCooldownTimer
     /\ reloadTimer = new.reloadTimer
     /\ autoAttackTimer = new.autoAttackTimer
     /\ fireDelay = new.fireDelay
     /\ bulletBurstTimer = new.bulletBurstTimer
     /\ currentBurstCount = new.currentBurstCount
     /\ emitted = new.out
     /\ despawned = new.rootEntities
     /\ async = new.async
     /\ connected = new.connected
     /\ spawners = new.spawners
     /\ inFlight = new.inFlight
     /\ owner = new.owner
     /\ tally = IF tallying
                  THEN [NoTally EXCEPT !.counting = TRUE, !.startLoaded = new.loadedAmmo]
                  ELSE NoTally

(* The state after construction and preStart. *)
Started(tallying, startingAmmo, startingReserveAmmo) ==
  StartedAs(preStart(Fresh, startingAmmo, startingReserveAmmo), tallying)

Init ==
  /\ props \in Props
  /\ \E startingAmmo \in 0..MaxCount, startingReserveAmmo \in 0..MaxCount :
       Started(FALSE, startingAmmo, startingReserveAmmo)

(* The snapshots transferOwnership can return for this configuration. *)
GunStates ==
  {st \in [loadedAmmo : 0..MaxCount, reserveAmmo : 0..MaxCount,
           impactFX : {<<>>}, missFX : {<<>>}] :
     /\ st.loadedAmmo <= Max(0, props.clipSize)
     /\ st.reserveAmmo <= Max(0, Max(0, props.maxAmmo) - st.loadedAmmo)}

(* Mutant: the reserve is assigned before the loaded ammo. *)
receiveOwnershipAssignsReserveFirst(g, state) ==
  [SetLoadedAmmo(SetReserveAmmo(g, state.reserveAmmo), state.loadedAmmo)
     EXCEPT !.impactFX = state.impactFX, !.missFX = state.missFX]

(* Mutant: the snapshot is stored in the fields, not assigned to the setters. *)
receiveOwnershipBypassesSetters(g, state) ==
  [g EXCEPT !.loadedAmmo = state.loadedAmmo, !.reserveAmmo = state.reserveAmmo,
            !.impactFX = state.impactFX, !.missFX = state.missFX]

receiveOwnership(g, state) ==
  [SetReserveAmmo(SetLoadedAmmo(g, state.loadedAmmo), state.reserveAmmo)
     EXCEPT !.impactFX = state.impactFX, !.missFX = state.missFX]

(* The engine calls receiveOwnership on a new instance right after preStart, *)
(* with the previous owner's snapshot or with null.                          *)
ReceiveOwnership ==
  /\ lastOp = "preStart"
  /\ \/ \E state \in GunStates : Becomes(receiveOwnership(This, state), "receiveOwnership", 0)
     \/ Becomes(This, "receiveOwnership", 0)
  /\ UNCHANGED <<grabbed, disposed>>

(* Mutant: only the impact effects are stopped. *)
transferOwnershipStopsImpactFXOnly(g) ==
  LET g1 == stopFX(g, g.impactFX)
      g2 == IF props.assetSpawner THEN Send(g1, Cue("setOwningPlayer")) ELSE g1
  IN Send(g2, Ev("GunState", g2.loadedAmmo, g2.reserveAmmo))

(* The snapshot transferOwnership returns. *)
GunState(g) ==
  [loadedAmmo |-> g.loadedAmmo, reserveAmmo |-> g.reserveAmmo,
   impactFX |-> g.impactFX, missFX |-> g.missFX]

(* transferOwnership stops the effects of both pools, asks the asset spawner *)
(* if there is one to make the new player its owning player, and returns the *)
(* snapshot (sent here as "GunState": loaded, reserve; the pools are those   *)
(* of the fields).                                                           *)
transferOwnership(g) ==
  LET g1 == stopFX(stopFX(g, g.impactFX), g.missFX)
      g2 == IF props.assetSpawner THEN Send(g1, Cue("setOwningPlayer")) ELSE g1
  IN Send(g2, Ev("GunState", GunState(g2).loadedAmmo, GunState(g2).reserveAmmo))

(* The engine calls transferOwnership on the owner's instance when the owner *)
(* of the entity changes, in whatever state the instance is.                 *)
TransferOwnership ==
  /\ ~disposed
  /\ Becomes(transferOwnership(This), "transferOwnership", 0)
  /\ UNCHANGED <<grabbed, disposed>>

(* dispose disconnects the inputs and every subscription, and clears the    *)
(* reload, burst, auto-fire and fire confirmation timers.                   *)
dispose(g) ==
  LET g1 == resetAutoAttack(resetBurst(resetReload(
              disconnect([g EXCEPT !.impactFX = <<>>, !.missFX = <<>>]))))
  IN IF g1.fireDelay
       THEN [clearTimeout(g1, "fireDelay") EXCEPT !.fireDelay = FALSE]
       ELSE g1

Dispose ==
  /\ ~disposed
  /\ disposed' = TRUE
  /\ grabbed' = FALSE
  /\ Becomes(dispose(This), "dispose", 0)

(* onGrabInitial: nothing when a hand holds the weapon already; otherwise *)
(* the inputs are connected and the pickup sound plays.                    *)
onGrabInitial(g) == IF grabbed THEN g ELSE Send(g, Cue("pickupSFX"))

(* onGrabStart: onGrabInitial, then the grantAmmo handler is subscribed. *)
onGrabStart(g) == connectNetworkEvent(onGrabInitial(g))

(* onGrabStart of a weapon no hand holds. *)
OnGrabStart ==
  /\ ~disposed
  /\ ~grabbed
  /\ grabbed' = TRUE
  /\ UNCHANGED disposed
  /\ Becomes(onGrabStart(This), "onGrabStart", 0)

onGrabEnd(g) == disconnect(resetAutoAttack(resetBurst(resetReload(g))))

OnGrabEnd ==
  /\ grabbed
  /\ grabbed' = FALSE
  /\ UNCHANGED disposed
  /\ Becomes(onGrabEnd(This), "onGrabEnd", 0)

onInputAttack(g, pressed) ==
  IF ~pressed THEN resetAutoAttack(resetBurst(g)) ELSE triggerAttack(g)

OnInputAttackPressed ==
  /\ grabbed
  /\ Becomes(onInputAttack(This, TRUE), "onInputAttack", 1)
  /\ UNCHANGED <<grabbed, disposed>>

OnInputAttackReleased ==
  /\ grabbed
  /\ Becomes(onInputAttack(This, FALSE), "onInputAttack", 0)
  /\ UNCHANGED <<grabbed, disposed>>

(* setupReloadInput connects the reload input only with limited ammo. *)
OnInputReload ==
  /\ grabbed
  /\ ~hasUnlimitedAmmo
  /\ Becomes(triggerReload(This), "onInputReload", 0)
  /\ UNCHANGED <<grabbed, disposed>>

(* Mutant: a grant reloads a short clip whether or not autoReload is set. *)
grantAmmoReloadsWithoutAutoReload(g, amount) ==
  LET g1 == SetReserveAmmo(g, g.reserveAmmo + amount)
  IN IF g1.loadedAmmo < props.ammoPerFire
       THEN triggerReload(g1)
       ELSE g1

grantAmmo(g, amount) ==
  LET g1 == SetReserveAmmo(g, g.reserveAmmo + amount)
  IN IF g1.loadedAmmo < props.ammoPerFire /\ props.autoReload
       THEN triggerReload(g1)
       ELSE g1

Amounts == (0 - MaxGrant)..MaxGrant

GrantAmmo ==
  /\ grabbed
  /\ \E amount \in Amounts : Becomes(grantAmmo(This, amount), "grantAmmo", 0)
  /\ UNCHANGED <<grabbed, disposed>>

(* The 50ms timeout of triggerAttack. *)
FireDelayTimer ==
  /\ fireDelay
  /\ Becomes(finishFiring(elapsed(This, "fireDelay")), "fireDelayTimer", 0)
  /\ UNCHANGED <<grabbed, disposed>>

(* The attackRate timeout of finishFiring. *)
attackCooldownElapsed(g) ==
  [elapsed(g, "attackCooldownTimer")
     EXCEPT !.attackCooldown = FALSE, !.attackCooldownTimer = FALSE]

AttackCooldownTimer ==
  /\ attackCooldownTimer
  /\ Becomes(attackCooldownElapsed(This), "attackCooldownTimer", 0)
  /\ UNCHANGED <<grabbed, disposed>>

(* One tick of the interval of triggerBurst. *)
burstTick(g) ==
  IF g.currentBurstCount = 0 THEN resetBurst(g)
  ELSE LET g1 == triggerAttack([g EXCEPT !.attackCooldown = FALSE])
       IN [g1 EXCEPT !.currentBurstCount = @ - 1]

BulletBurstTimer ==
  /\ bulletBurstTimer
  /\ Becomes(burstTick(This), "bulletBurstTimer", 0)
  /\ UNCHANGED <<grabbed, disposed>>

(* One tick of the interval of triggerAutoAttack. *)
autoAttackTick(g) == triggerAttack([g EXCEPT !.attackCooldown = FALSE])

AutoAttackTimer ==
  /\ autoAttackTimer
  /\ Becomes(autoAttackTick(This), "autoAttackTimer", 0)
  /\ UNCHANGED <<grabbed, disposed>>

(* The 500ms timeout of finishFiring. *)
reloadDelayElapsed(g) ==
  triggerReload([elapsed(g, "reloadTimer") EXCEPT !.reloadTimer = "none"])

ReloadDelayTimer ==
  /\ reloadTimer = "delay"
  /\ Becomes(reloadDelayElapsed(This), "reloadDelayTimer", 0)
  /\ UNCHANGED <<grabbed, disposed>>

(* The 1000ms timeout of triggerReload. *)
reloadWindowElapsed(g) == [elapsed(g, "reloadTimer") EXCEPT !.reloadTimer = "none"]

ReloadWindowTimer ==
  /\ reloadTimer = "window"
  /\ Becomes(reloadWindowElapsed(This), "reloadWindowTimer", 0)
  /\ UNCHANGED <<grabbed, disposed>>

Next ==
  \/ ReceiveOwnership
  \/ TransferOwnership
  \/ Dispose
  \/ OnGrabStart
  \/ OnGrabEnd
  \/ OnInputAttackPressed
  \/ OnInputAttackReleased
  \/ OnInputReload
  \/ GrantAmmo
  \/ FireDelayTimer
  \/ AttackCooldownTimer
  \/ BulletBurstTimer
  \/ AutoAttackTimer
  \/ ReloadDelayTimer
  \/ ReloadWindowTimer

Spec == Init /\ [][Next]_vars

(***************************************************************************)
(* Direct assignments to the public setters, from any state after preStart *)
(***************************************************************************)
Values == (0 - 1)..(MaxCount + 1)

AssignLoadedAmmo(v) ==
  /\ Becomes(SetLoadedAmmo(This, v), "set loadedAmmo", v)
  /\ UNCHANGED <<grabbed, disposed>>

AssignReserveAmmo(v) ==
  /\ Becomes(SetReserveAmmo(This, v), "set reserveAmmo", v)
  /\ UNCHANGED <<grabbed, disposed>>

AssignLoaded == \E v \in Values : AssignLoadedAmmo(v)

AssignReserve == \E v \in Values : AssignReserveAmmo(v)

NextSetters ==
  \/ AssignLoaded
  \/ AssignReserve

SpecSetters == Init /\ [][NextSetters]_vars

(***************************************************************************)
(* Scenario A: attack presses one after the other, each after the cooldown *)
(* of the shot before, without burst, auto-fire or auto-reload; a reload   *)
(* only after a press was rejected.                                        *)
(***************************************************************************)
ScenarioCount == 6

DefaultAmmoPerFire == 1
DefaultClipSize == 10
DefaultMaxAmmo == 30
DefaultStartingAmmo == 10
DefaultStartingReserveAmmo == 20
DefaultBulletBurstPerFire == 1

DefaultProps ==
  [clipSize |-> DefaultClipSize, maxAmmo |-> DefaultMaxAmmo,
   ammoPerFire |-> DefaultAmmoPerFire, autoAttack |-> FALSE, autoReload |-> FALSE,
   bulletBurstPerFire |-> DefaultBulletBurstPerFire, ownerIsVR |-> FALSE,
   projectileLauncher |-> FALSE, raycaster |-> FALSE,
   assetSpawner |-> FALSE]

PropsA ==
  [clipSize : 0..ScenarioCount, maxAmmo : 0..ScenarioCount, ammoPerFire : 1..MaxPerFire,
   autoAttack : {FALSE}, autoReload : {FALSE},
   bulletBurstPerFire : {1}, ownerIsVR : BOOLEAN, projectileLauncher : {FALSE},
   raycaster : {FALSE}, assetSpawner : {FALSE}]

InitA ==
  \/ /\ props \in PropsA
     /\ \E startingAmmo \in 0..ScenarioCount, startingReserveAmmo \in 0..ScenarioCount :
          Started(TRUE, startingAmmo, startingReserveAmmo)
  \/ /\ props = DefaultProps
     /\ Started(TRUE, DefaultStartingAmmo, DefaultStartingReserveAmmo)

PressAfterCooldown ==
  /\ ~attackCooldown
  /\ ~fireDelay
  /\ reloadTimer = "none"
  /\ OnInputAttackPressed

ReloadAfterRejection ==
  /\ lastOp = "onInputAttack"
  /\ Has(emitted, "outOfAmmoSFX")
  /\ OnInputReload

NextA ==
  \/ OnGrabStart
  \/ PressAfterCooldown
  \/ OnInputAttackReleased
  \/ FireDelayTimer
  \/ AttackCooldownTimer
  \/ ReloadAfterRejection

SpecA == InitA /\ [][NextA]_vars

(***************************************************************************)
(* Scenario C: one attack press from Idle with ammo for the whole burst,   *)
(* then only the timers the press started.                                 *)
(***************************************************************************)
PropsBurst ==
  [clipSize : 0..ScenarioCount, maxAmmo : 0..ScenarioCount,
   ammoPerFire : (0 - 1)..MaxPerFire,
   autoAttack : {FALSE}, autoReload : BOOLEAN,
   bulletBurstPerFire : 2..MaxBurst, ownerIsVR : BOOLEAN,
   projectileLauncher : {FALSE},
   raycaster : {FALSE}, assetSpawner : {FALSE}]

InitBurst ==
  /\ props \in PropsBurst
  /\ \E startingAmmo \in 0..ScenarioCount, startingReserveAmmo \in 0..ScenarioCount :
       Started(TRUE, startingAmmo, startingReserveAmmo)
  /\ loadedAmmo >= props.bulletBurstPerFire * props.ammoPerFire

SinglePress ==
  /\ lastOp = "onGrabStart"
  /\ OnInputAttackPressed

NextBurst ==
  \/ OnGrabStart
  \/ SinglePress
  \/ FireDelayTimer
  \/ AttackCooldownTimer
  \/ BulletBurstTimer
  \/ ReloadDelayTimer
  \/ ReloadWindowTimer

SpecBurst == InitBurst /\ [][NextBurst]_vars

(***************************************************************************)
(* A burst that runs out of ammo: one attack press with limited ammo and    *)
(* less loaded than the whole burst needs, then only the timers.            *)
(***************************************************************************)
InitShortBurst ==
  /\ props \in PropsBurst
  /\ props.ammoPerFire > 0
  /\ \E startingAmmo \in 0..ScenarioCount, startingReserveAmmo \in 0..ScenarioCount :
       Started(TRUE, startingAmmo, startingReserveAmmo)
  /\ loadedAmmo < props.bulletBurstPerFire * props.ammoPerFire

SpecShortBurst == InitShortBurst /\ [][NextBurst]_vars

(***************************************************************************)
(* Auto-fire: the attack input pressed and released in turn, no burst, and  *)
(* the timers.  A pending timeout elapses and a running interval ticks,     *)
(* sooner or later.                                                         *)
(***************************************************************************)
PropsAuto ==
  [clipSize : 0..MaxCount, maxAmmo : 0..MaxCount, ammoPerFire : (0 - 1)..MaxPerFire,
   autoAttack : BOOLEAN, autoReload : BOOLEAN,
   bulletBurstPerFire : {1}, ownerIsVR : BOOLEAN, projectileLauncher : {FALSE},
   raycaster : {FALSE}, assetSpawner : {FALSE}]

InitAuto ==
  /\ props \in PropsAuto
  /\ \E startingAmmo \in 0..MaxCount, startingReserveAmmo \in 0..MaxCount :
       Started(FALSE, startingAmmo, startingReserveAmmo)

HoldAttack ==
  /\ ~attackHeld
  /\ OnInputAttackPressed

ReleaseAttack ==
  /\ attackHeld
  /\ OnInputAttackReleased

NextAuto ==
  \/ OnGrabStart
  \/ HoldAttack
  \/ ReleaseAttack
  \/ FireDelayTimer
  \/ AttackCooldownTimer
  \/ AutoAttackTimer
  \/ ReloadDelayTimer
  \/ ReloadWindowTimer

SpecAuto ==
  /\ InitAuto
  /\ [][NextAuto]_vars
  /\ WF_vars(FireDelayTimer)
  /\ WF_vars(AttackCooldownTimer)
  /\ WF_vars(AutoAttackTimer)
  /\ WF_vars(ReloadDelayTimer)
  /\ WF_vars(ReloadWindowTimer)

(***************************************************************************)
(* Projectile weapons: limited ammo, a projectile launcher and no           *)
(* raycaster, so that finishFiring launches a projectile (the 1ms launch    *)
(* timeout of fireWithProjectile counts as flight) and the launcher calls   *)
(* back when it hits or expires, if ever.  No reload.                       *)
(***************************************************************************)
PropsShots ==
  [clipSize : 0..MaxCount, maxAmmo : 0..MaxCount, ammoPerFire : 1..MaxPerFire,
   autoAttack : BOOLEAN, autoReload : {FALSE},
   bulletBurstPerFire : 1..MaxBurst, ownerIsVR : BOOLEAN, projectileLauncher : {TRUE},
   raycaster : {FALSE}, assetSpawner : {FALSE}]

InitShots ==
  /\ props \in PropsShots
  /\ \E startingAmmo \in 0..MaxCount, startingReserveAmmo \in 0..MaxCount :
       Started(TRUE, startingAmmo, startingReserveAmmo)

(* Mutant: the callback sends the damage whether or not there is a raycaster. *)
onProjHitAlwaysSendsDamage(g) ==
  sendDamageEvent(triggerFX(getImpactFX(g), "impactFX"))

(* onProjHitPlayer, onProjHitEntity: the impact effect, and the damage event *)
(* unless there is a raycaster.                                              *)
onProjHit(g) ==
  LET g1 == triggerFX(getImpactFX(g), "impactFX")
  IN IF ~props.raycaster THEN sendDamageEvent(g1) ELSE g1

OnProjHit ==
  /\ ~disposed
  /\ projectiles > 0
  /\ Becomes(onProjHit([This EXCEPT !.projectiles = @ - 1]), "onProjHit", 0)
  /\ UNCHANGED <<grabbed, disposed>>

(* onProjMiss: the miss effect. *)
onProjMiss(g) == triggerFX(getMissFX(g), "missFX")

OnProjMiss ==
  /\ ~disposed
  /\ projectiles > 0
  /\ Becomes(onProjMiss([This EXCEPT !.projectiles = @ - 1]), "onProjMiss", 0)
  /\ UNCHANGED <<grabbed, disposed>>

NextShots ==
  \/ OnGrabStart
  \/ OnInputAttackPressed
  \/ OnInputAttackReleased
  \/ FireDelayTimer
  \/ AttackCooldownTimer
  \/ BulletBurstTimer
  \/ AutoAttackTimer
  \/ OnProjHit
  \/ OnProjMiss

SpecShots == InitShots /\ [][NextShots]_vars

(***************************************************************************)
(* The effect pools.  The asset spawner delivers the spawned groups of an   *)
(* asset, each group a set of particle handles; the weapon receives them    *)
(* through authSpawnFX on the server or through the syncImpactFX and        *)
(* syncMissFX events on a client.                                           *)
(***************************************************************************)
MaxGroups == 2

FXLists(asset) ==
  {[i \in 1..n |-> {<<asset, i, "a">>, <<asset, i, "b">>}] : n \in 1..MaxGroups}

(* syncFX asks the asset spawner, if there is one, to despawn the handles of *)
(* the existing pool that the spawned one does not hold and returns the     *)
(* spawned pool.                                                            *)
(* Mutant: every handle of the existing pool is despawned. *)
syncFXDespawnsExisting(g, spawnedFX, existingFX) ==
  LET fxToDespawn == Handles(existingFX)
  IN IF props.assetSpawner /\ fxToDespawn # {}
       THEN [Send(g, Cue("despawnAssets")) EXCEPT !.rootEntities = @ \cup fxToDespawn]
       ELSE g

syncFX(g, spawnedFX, existingFX) ==
  LET fxToDespawn == Handles(existingFX) \ Handles(spawnedFX)
  IN IF props.assetSpawner /\ fxToDespawn # {}
       THEN [Send(g, Cue("despawnAssets")) EXCEPT !.rootEntities = @ \cup fxToDespawn]
       ELSE g

syncImpactFX(g, effects) ==
  LET g1 == stopFX(g, g.impactFX)
  IN [syncFX(g1, effects, g1.impactFX) EXCEPT !.impactFX = effects]

syncMissFX(g, effects) ==
  LET g1 == stopFX(g, g.missFX)
  IN [syncFX(g1, effects, g1.missFX) EXCEPT !.missFX = effects]

SyncImpactFX ==
  /\ ~disposed
  /\ \E effects \in FXLists("impactFX") :
       Becomes(syncImpactFX(This, effects), "syncImpactFX", 0)
  /\ UNCHANGED <<grabbed, disposed>>

SyncMissFX ==
  /\ ~disposed
  /\ \E effects \in FXLists("missFX") :
       Becomes(syncMissFX(This, effects), "syncMissFX", 0)
  /\ UNCHANGED <<grabbed, disposed>>

(***************************************************************************)
(* Weapons of every configuration of the general specification whose pools  *)
(* have been delivered with MaxGroups groups each, under every operation    *)
(* and the hand-off to a new instance of the same configuration.            *)
(***************************************************************************)
FullFXList(asset) == [i \in 1..MaxGroups |-> {<<asset, i, "a">>, <<asset, i, "b">>}]

InitPools ==
  /\ props \in Props
  /\ \E startingAmmo \in 0..MaxCount, startingReserveAmmo \in 0..MaxCount :
       StartedAs(syncMissFX(syncImpactFX(
                   preStart(Fresh, startingAmmo, startingReserveAmmo),
                   FullFXList("impactFX")), FullFXList("missFX")), FALSE)

(* The owner changes: transferOwnership on this instance, then a new        *)
(* instance of the component is constructed for the new owner, with its own *)
(* starting ammo, and receives the snapshot.                                *)
handOff(g, startingAmmo, startingReserveAmmo) ==
  receiveOwnership(preStart(Fresh, startingAmmo, startingReserveAmmo),
                   GunState(transferOwnership(g)))

HandOff ==
  /\ ~disposed
  /\ \E startingAmmo \in 0..MaxCount, startingReserveAmmo \in 0..MaxCount :
       Becomes(handOff(This, startingAmmo, startingReserveAmmo), "handOff", 0)
  /\ grabbed' = FALSE
  /\ UNCHANGED disposed

NextPools ==
  \/ HandOff
  \/ TransferOwnership
  \/ Dispose
  \/ OnGrabStart
  \/ OnGrabEnd
  \/ OnInputAttackPressed
  \/ OnInputAttackReleased
  \/ OnInputReload
  \/ GrantAmmo
  \/ FireDelayTimer
  \/ AttackCooldownTimer
  \/ BulletBurstTimer
  \/ AutoAttackTimer
  \/ ReloadDelayTimer
  \/ ReloadWindowTimer

SpecPools == InitPools /\ [][NextPools]_vars

(***************************************************************************)
(* The effect pools alone: groups are taken and played and the pools are    *)
(* replaced, in any order and any number of times.                          *)
(***************************************************************************)
InitFX ==
  /\ props \in [clipSize : {MaxCount}, maxAmmo : {MaxCount}, ammoPerFire : {1},
                autoAttack : {FALSE}, autoReload : {FALSE},
                bulletBurstPerFire : {1}, ownerIsVR : {TRUE},
                projectileLauncher : {FALSE}, raycaster : {FALSE},
                assetSpawner : BOOLEAN]
  /\ Started(FALSE, props.clipSize, 0)

TriggerImpactFX ==
  /\ ~disposed
  /\ Becomes(triggerFX(getImpactFX(This), "impactFX"), "getImpactFX", 0)
  /\ UNCHANGED <<grabbed, disposed>>

TriggerMissFX ==
  /\ ~disposed
  /\ Becomes(triggerFX(getMissFX(This), "missFX"), "getMissFX", 0)
  /\ UNCHANGED <<grabbed, disposed>>

NextFX ==
  \/ TriggerImpactFX
  \/ TriggerMissFX
  \/ SyncImpactFX
  \/ SyncMissFX
  \/ TransferOwnership

SpecFX == InitFX /\ [][NextFX]_vars

(***************************************************************************)
(* Hit detection: single-shot weapons with limited ammo on a VR device, in  *)
(* every hit mode (raycaster, projectile launcher, both, neither), with the *)
(* effect pools.  No reserve and no reload, so that the shots can be        *)
(* counted.                                                                 *)
(***************************************************************************)
PropsHits ==
  [clipSize : {MaxCount}, maxAmmo : {MaxCount}, ammoPerFire : {1},
   autoAttack : {FALSE}, autoReload : {FALSE},
   bulletBurstPerFire : {1}, ownerIsVR : {TRUE},
   projectileLauncher : BOOLEAN, raycaster : BOOLEAN, assetSpawner : BOOLEAN]

InitHits ==
  /\ props \in PropsHits
  /\ Started(TRUE, props.clipSize, 0)

(* onProjHitWorld: the impact effect, no damage. *)
onProjHitWorld(g) == triggerFX(getImpactFX(g), "impactFX")

OnProjHitWorld ==
  /\ ~disposed
  /\ projectiles > 0
  /\ Becomes(onProjHitWorld([This EXCEPT !.projectiles = @ - 1]), "onProjHitWorld", 0)
  /\ UNCHANGED <<grabbed, disposed>>

NextHits ==
  \/ OnGrabStart
  \/ OnInputAttackPressed
  \/ OnInputAttackReleased
  \/ AttackCooldownTimer
  \/ OnProjHit
  \/ OnProjHitWorld
  \/ OnProjMiss
  \/ SyncImpactFX
  \/ SyncMissFX
  \/ TransferOwnership

SpecHits == InitHits /\ [][NextHits]_vars

(***************************************************************************)
(* receiveOwnership on a new instance, for any snapshot the engine may hand *)
(* over: the counters of an instance of another configuration included.     *)
(***************************************************************************)
Snapshots ==
  [loadedAmmo : Values, reserveAmmo : Values, impactFX : {<<>>}, missFX : {<<>>}]

ReceiveSnapshot(state) ==
  /\ lastOp = "preStart"
  /\ Becomes(receiveOwnership(This, state), "receiveOwnership", state.loadedAmmo)
  /\ UNCHANGED <<grabbed, disposed>>

ReceiveAnySnapshot == \E state \in Snapshots : ReceiveSnapshot(state)

NextReceive ==
  \/ ReceiveAnySnapshot
  \/ ReceiveOwnership

SpecReceive == Init /\ [][NextReceive]_vars

(***************************************************************************)
(* Single-shot weapons with limited ammo and autoReload, under every        *)
(* operation, with the 500ms reload delay certain to elapse while it is     *)
(* pending: the engine runs a timeout that is not cleared.                  *)
(***************************************************************************)
PropsReload ==
  {p \in Props : p.autoReload /\ p.ammoPerFire > 0 /\ p.bulletBurstPerFire = 1}

InitReload ==
  /\ props \in PropsReload
  /\ \E startingAmmo \in 0..MaxCount, startingReserveAmmo \in 0..MaxCount :
       Started(FALSE, startingAmmo, startingReserveAmmo)

NextReload ==
  \/ ReceiveOwnership
  \/ TransferOwnership
  \/ Dispose
  \/ OnGrabStart
  \/ OnGrabEnd
  \/ OnInputAttackPressed
  \/ OnInputAttackReleased
  \/ OnInputReload
  \/ GrantAmmo
  \/ FireDelayTimer
  \/ AttackCooldownTimer
  \/ AutoAttackTimer
  \/ ReloadDelayTimer
  \/ ReloadWindowTimer

SpecReload == InitReload /\ [][NextReload]_vars /\ WF_vars(ReloadDelayTimer)

(***************************************************************************)
(* Shots counted from acceptance to finishFiring: weapons with limited ammo *)
(* and no grant of ammo, on any device, under every other operation, with   *)
(* the 50ms fire confirmation delay certain to elapse while it is pending.  *)
(* The clip holds up to three rounds, so that an auto-fire interval can     *)
(* tick while the delay of the shot of its previous tick is pending.        *)
(***************************************************************************)
PropsResolve ==
  [clipSize : 1..(MaxCount + 1), maxAmmo : {MaxCount + 1}, ammoPerFire : 1..MaxPerFire,
   autoAttack : BOOLEAN, autoReload : BOOLEAN,
   bulletBurstPerFire : 1..2, ownerIsVR : BOOLEAN, projectileLauncher : {FALSE},
   raycaster : {FALSE}, assetSpawner : {FALSE}]

InitResolve ==
  /\ props \in PropsResolve
  /\ Started(TRUE, props.clipSize, props.maxAmmo)

NextResolve ==
  \/ TransferOwnership
  \/ Dispose
  \/ OnGrabStart
  \/ OnGrabEnd
  \/ OnInputAttackPressed
  \/ OnInputAttackReleased
  \/ OnInputReload
  \/ FireDelayTimer
  \/ AttackCooldownTimer
  \/ BulletBurstTimer
  \/ AutoAttackTimer
  \/ ReloadDelayTimer
  \/ ReloadWindowTimer

SpecResolve == InitResolve /\ [][NextResolve]_vars /\ WF_vars(FireDelayTimer)

(***************************************************************************)
(* A weapon with autoReload whose clip is not a multiple of ammoPerFire: a  *)
(* full clip of MaxCount + 1 rounds and a reserve of MaxCount, under every  *)
(* operation of the single-shot weapon, with the 500ms reload delay certain *)
(* to elapse while it is pending.                                           *)
(***************************************************************************)
PropsPartial ==
  [clipSize : {MaxCount + 1}, maxAmmo : {2 * MaxCount + 1}, ammoPerFire : {MaxPerFire},
   autoAttack : BOOLEAN, autoReload : {TRUE},
   bulletBurstPerFire : {1}, ownerIsVR : BOOLEAN, projectileLauncher : {FALSE},
   raycaster : {FALSE}, assetSpawner : {FALSE}]

InitPartial ==
  /\ props \in PropsPartial
  /\ Started(FALSE, props.clipSize, props.maxAmmo - props.clipSize)

SpecPartial == InitPartial /\ [][NextReload]_vars /\ WF_vars(ReloadDelayTimer)

(***************************************************************************)
(* Grabs with two hands: with multigrab onGrabStart is called when each     *)
(* hand grabs the weapon, and the engine delivers a grantAmmo event to      *)
(* every handler connected for it.  Weapons with limited ammo.              *)
(***************************************************************************)
MaxGrabs == 2

PropsGrab ==
  [clipSize : {MaxCount}, maxAmmo : {MaxCount + 1}, ammoPerFire : {1},
   autoAttack : {FALSE}, autoReload : BOOLEAN,
   bulletBurstPerFire : {1}, ownerIsVR : BOOLEAN, projectileLauncher : {FALSE},
   raycaster : {FALSE}, assetSpawner : {FALSE}]

InitGrab ==
  /\ props \in PropsGrab
  /\ \E startingAmmo \in 0..1 : Started(FALSE, startingAmmo, 0)

(* onGrabStart for another hand of the player who holds the weapon. *)
OnGrabStartOtherHand ==
  /\ ~disposed
  /\ grabbed
  /\ connected.handlers < MaxGrabs
  /\ Becomes(onGrabStart(This), "onGrabStart", 1)
  /\ UNCHANGED <<grabbed, disposed>>

(* One grantAmmo event, handled by every one of the handlers connected. *)
RECURSIVE grantAmmoEvent(_, _, _)
grantAmmoEvent(g, amount, handlers) ==
  IF handlers = 0 THEN g
  ELSE grantAmmoEvent(grantAmmo(g, amount), amount, handlers - 1)

GrantAmmoEvent ==
  /\ ~disposed
  /\ connected.handlers > 0
  /\ \E amount \in 1..MaxGrant :
       Becomes(grantAmmoEvent(This, amount, connected.handlers), "grantAmmo", amount)
  /\ UNCHANGED <<grabbed, disposed>>

NextGrab ==
  \/ OnGrabStart
  \/ OnGrabStartOtherHand
  \/ OnGrabEnd
  \/ Dispose
  \/ GrantAmmoEvent
  \/ OnInputAttackPressed
  \/ OnInputAttackReleased
  \/ OnInputReload
  \/ FireDelayTimer
  \/ AttackCooldownTimer
  \/ ReloadDelayTimer
  \/ ReloadWindowTimer

SpecGrab == InitGrab /\ [][NextGrab]_vars

(***************************************************************************)
(* Spawning the effects.  The entity starts owned by the server; whenever   *)
(* the owner changes, a new instance of the script is constructed where the *)
(* new owner runs, started, and handed the snapshot of the old one.  The    *)
(* impact and the miss asset are two assets.  A spawn controller is in the  *)
(* list of the asset spawner from the spawnAsset call on; its spawn         *)
(* completes later, with groups of particles, with none, or rejected.  own  *)
(* tells whether the instance that asked for the spawn is the running one:  *)
(* the callback of a spawn assigns to the instance that asked for it.       *)
(***************************************************************************)
Players == {"server", "client"}

FXAssets == {"impactFX", "missFX"}

(* SpawnedAssets.hasSpawnedAsset: a controller in the list has this asset. *)
hasSpawnedAsset(g, asset) ==
  \E i \in 1..Len(g.spawners) : g.spawners[i].asset = asset

(* SpawnedAssets.spawnAsset with count 1: the controller is appended to the *)
(* list before its spawn is started.                                        *)
spawnAsset(g, asset) ==
  [g EXCEPT !.spawners = Append(@, [asset |-> asset, spawned |-> FALSE, own |-> TRUE])]

(* Mutant: the assets are spawned whether or not the spawner holds them. *)
authSpawnFXSpawnsAgain(g) ==
  IF g.owner # "server" THEN g
  ELSE IF ~props.assetSpawner THEN g
  ELSE spawnAsset(spawnAsset(g, "impactFX"), "missFX")

(* authSpawnFX: on the server, with an asset spawner, each asset the spawner *)
(* does not hold yet is spawned; both tests come before both spawns.         *)
authSpawnFX(g) ==
  IF g.owner # "server" THEN g
  ELSE IF ~props.assetSpawner THEN g
  ELSE LET hasImpactFX == hasSpawnedAsset(g, "impactFX")
           hasMissFX == hasSpawnedAsset(g, "missFX")
           g1 == IF ~hasImpactFX THEN spawnAsset(g, "impactFX") ELSE g
       IN IF ~hasMissFX THEN spawnAsset(g1, "missFX") ELSE g1

(* start: the subscriptions, and authSpawnFX where the local player is the *)
(* server player.                                                          *)
start(g) == IF g.owner = "server" THEN authSpawnFX(g) ELSE g

(* createFXList of the entities one spawn of an asset delivers: one group, *)
(* or none when no entity is a particle gizmo.                             *)
createFXList(asset, particles) ==
  IF particles THEN <<{<<asset, 1, "a">>, <<asset, 1, "b">>}>> ELSE <<>>

(* The callback of a spawn: with a group, the pool of the instance that    *)
(* asked is set through syncFX while the server owns the entity, and the   *)
(* sync event is sent to the entity otherwise.                             *)
spawnCompleted(g, i, particles) ==
  LET asset == g.spawners[i].asset
      fxList == createFXList(asset, particles)
      g1 == [g EXCEPT !.spawners[i].spawned = TRUE]
  IN IF Len(fxList) = 0 THEN g1
     ELSE IF g.owner = "server"
       THEN IF ~g.spawners[i].own THEN g1
            ELSE IF asset = "impactFX"
              THEN [syncFX(g1, fxList, g1.impactFX) EXCEPT !.impactFX = fxList]
              ELSE [syncFX(g1, fxList, g1.missFX) EXCEPT !.missFX = fxList]
     ELSE [g1 EXCEPT !.inFlight = @ \cup {asset}]

(* The instance constructed for a new owner: the fields as the class leaves *)
(* them, in the world as it is.                                             *)
newInstance(g, player) ==
  [Fresh EXCEPT !.spawners = [i \in 1..Len(g.spawners) |->
                                [g.spawners[i] EXCEPT !.own = FALSE]],
                !.inFlight = g.inFlight,
                !.owner = player]

changeOwner(g, player) ==
  receiveOwnership(start(preStart(newInstance(g, player), props.clipSize, 0)),
                   GunState(transferOwnership(g)))

InitSpawn ==
  /\ props \in [clipSize : {MaxCount}, maxAmmo : {MaxCount}, ammoPerFire : {1},
                autoAttack : {FALSE}, autoReload : {FALSE},
                bulletBurstPerFire : {1}, ownerIsVR : {TRUE},
                projectileLauncher : {FALSE}, raycaster : {FALSE},
                assetSpawner : BOOLEAN]
  /\ StartedAs(start(preStart(Fresh, props.clipSize, 0)), FALSE)

ChangeOwner ==
  /\ ~disposed
  /\ \E player \in Players :
       /\ ~(player = "server" /\ owner = "server")
       /\ Becomes(changeOwner(This, player), "receiveOwnership", 0)
  /\ grabbed' = FALSE
  /\ UNCHANGED disposed

SpawnCompleted ==
  /\ ~disposed
  /\ \E i \in 1..Len(spawners), particles \in BOOLEAN :
       /\ ~spawners[i].spawned
       /\ Becomes(spawnCompleted(This, i, particles), "spawnCompleted", 0)
  /\ UNCHANGED <<grabbed, disposed>>

(* A sync event sent to the entity reaches the instance of its owner. *)
DeliverSyncFX ==
  /\ ~disposed
  /\ \E asset \in inFlight :
       LET g == [This EXCEPT !.inFlight = @ \ {asset}]
       IN IF asset = "impactFX"
            THEN Becomes(syncImpactFX(g, createFXList(asset, TRUE)), "syncImpactFX", 0)
            ELSE Becomes(syncMissFX(g, createFXList(asset, TRUE)), "syncMissFX", 0)
  /\ UNCHANGED <<grabbed, disposed>>

(* authSpawnFX called on the running instance, wherever it runs. *)
AuthSpawnFX ==
  /\ ~disposed
  /\ Becomes(authSpawnFX(This), "authSpawnFX", 0)
  /\ UNCHANGED <<grabbed, disposed>>

NextSpawn ==
  \/ ChangeOwner
  \/ SpawnCompleted
  \/ DeliverSyncFX
  \/ AuthSpawnFX
  \/ TriggerImpactFX
  \/ TriggerMissFX

SpecSpawn == InitSpawn /\ [][NextSpawn]_vars

(***************************************************************************)
(* Properties                                                              *)
(***************************************************************************)
NonNegativeCounts ==
  props.clipSize >= 0 /\ props.maxAmmo >= 0 /\ props.ammoPerFire >= 0

LimitedAmmo == props.ammoPerFire > 0

(* The fields before and after a step. *)
Fields ==
  <<loadedAmmo, reserveAmmo, attackCooldown, attackCooldownTimer, reloadTimer,
    autoAttackTimer, fireDelay, bulletBurstTimer, currentBurstCount>>

(* clamp(v, lo, hi) = max(lo, min(v, hi)): lo when the range is empty. *)
Clamp(v, lo, hi) ==
  IF v < lo \/ hi < lo THEN lo ELSE IF v > hi THEN hi ELSE v

\* C1: for every configuration with non-negative counts, between operations
\* 0 <= loaded <= clipSize and 0 <= reserve <= maxAmmo - loaded.
C1_AmmoWithinLimits ==
  NonNegativeCounts =>
    /\ 0 <= loadedAmmo /\ loadedAmmo <= props.clipSize
    /\ 0 <= reserveAmmo /\ reserveAmmo <= props.maxAmmo - loadedAmmo

\* C2: an assignment loadedAmmo = v stores clamp(v, 0, clipSize); an assignment
\* reserveAmmo = v stores clamp(v, 0, maxAmmo - loaded), loaded being the loaded
\* count at the assignment (which the assignment leaves as it is).
C2_SettersClamp ==
  /\ lastOp = "set loadedAmmo" => loadedAmmo = Clamp(lastArg, 0, props.clipSize)
  /\ lastOp = "set reserveAmmo" =>
       reserveAmmo = Clamp(lastArg, 0, props.maxAmmo - loadedAmmo)

\* A reserve assignment above the room left beside the loaded ammo was cut to it.
C2_Witness ==
  /\ lastOp = "set reserveAmmo"
  /\ props.maxAmmo - loadedAmmo > 0
  /\ lastArg > props.maxAmmo - loadedAmmo
  /\ reserveAmmo = props.maxAmmo - loadedAmmo

\* C3: a setter emits its change event exactly when the stored value changes,
\* with current = the new and previous = the old value; assigning the same x to
\* loadedAmmo a second time in a row emits nothing.
C3_ChangeEventIffChanged ==
  [][\A v \in Values :
       /\ AssignLoadedAmmo(v) =>
            emitted' = IF loadedAmmo' # loadedAmmo
                         THEN <<Ev("loadedAmmoChanged", loadedAmmo', loadedAmmo)>>
                         ELSE <<>>
       /\ AssignReserveAmmo(v) =>
            emitted' = IF reserveAmmo' # reserveAmmo
                         THEN <<Ev("reserveAmmoChanged", reserveAmmo', reserveAmmo)>>
                         ELSE <<>>
       /\ (lastOp = "set loadedAmmo" /\ lastArg = v /\ AssignLoadedAmmo(v)) =>
            emitted' = <<>>]_vars

\* An assignment above clipSize to a full clip: the stored value stays, no event.
C3_Witness ==
  /\ lastOp = "set loadedAmmo"
  /\ lastArg > props.clipSize
  /\ props.clipSize > 0
  /\ emitted = <<>>

(* A step that called triggerAttack: an attack press or a tick of the burst *)
(* or auto-fire interval (read in the state the step leads to).             *)
CalledTriggerAttack ==
  \/ lastOp' = "onInputAttack" /\ lastArg' = 1
  \/ lastOp' = "bulletBurstTimer" /\ currentBurstCount # 0
  \/ lastOp' = "autoAttackTimer"

(* The amount a reload would move, in the current state. *)
Transfer == Min(props.clipSize - loadedAmmo, reserveAmmo)

\* C4: triggerReload never changes loaded + reserve, successful or refused: a
\* reload press and the reload-delay callback leave the sum as it was, and a
\* grantAmmo leaves it as its reserve assignment made it.
C4_ReloadConservesAmmo ==
  [][/\ lastOp' \in {"onInputReload", "reloadDelayTimer"} =>
          loadedAmmo' + reserveAmmo' = loadedAmmo + reserveAmmo
     /\ \A amount \in Amounts :
          (Becomes(grantAmmo(This, amount), "grantAmmo", 0) /\ grabbed) =>
             loadedAmmo' + reserveAmmo' =
               loadedAmmo + SetReserveAmmo(This, reserveAmmo + amount).reserveAmmo]_vars

\* A reload press has just moved ammo from the reserve into the clip.
C4_Witness ==
  /\ lastOp = "onInputReload"
  /\ Has(emitted, "reloadSFX")
  /\ Has(emitted, "reserveAmmoChanged")

\* C5: with limited ammo, an accepted triggerAttack had loaded >= ammoPerFire and
\* takes exactly ammoPerFire from loaded; a rejected one leaves loaded and
\* reserve as they were; loaded never goes below 0.
C5_AttackDeductsOnlyAvailable ==
  [][LimitedAmmo =>
       /\ loadedAmmo' >= 0
       /\ CalledTriggerAttack =>
            IF Has(emitted', "accepted")
              THEN /\ loadedAmmo >= props.ammoPerFire
                   /\ loadedAmmo' = loadedAmmo - props.ammoPerFire
                   /\ reserveAmmo' = reserveAmmo
              ELSE /\ loadedAmmo' = loadedAmmo
                   /\ reserveAmmo' = reserveAmmo]_vars

\* An attack press outside cooldown was rejected with some ammo loaded, but
\* less than a shot needs.
C5_Witness ==
  /\ LimitedAmmo
  /\ lastOp = "onInputAttack"
  /\ ~attackCooldown
  /\ Has(emitted, "outOfAmmoSFX")
  /\ loadedAmmo > 0

\* C6: with limited ammo and no reload timer pending, triggerReload is a no-op
\* (fields and events) exactly when transfer = min(clipSize - loaded, reserve)
\* is 0 or below ammoPerFire; otherwise loaded grows and reserve shrinks by
\* transfer.  (The reload-delay callback has cleared its own timer by then.)
C6_ReloadTransfer ==
  [][(LimitedAmmo /\ \/ lastOp' = "onInputReload" /\ reloadTimer = "none"
                     \/ lastOp' = "reloadDelayTimer") =>
       IF Transfer = 0 \/ Transfer < props.ammoPerFire
         THEN /\ Fields' = [Fields EXCEPT ![5] = "none"]
              /\ emitted' = <<>>
         ELSE /\ loadedAmmo' = loadedAmmo + Transfer
              /\ reserveAmmo' = reserveAmmo - Transfer
              /\ Fields' # Fields]_vars

\* A reload press was refused because the transfer is positive but below
\* ammoPerFire.
C6_Witness ==
  /\ lastOp = "onInputReload"
  /\ reloadTimer = "none"
  /\ emitted = <<>>
  /\ Transfer > 0
  /\ Transfer < props.ammoPerFire

\* C7: a reload refused with transfer > 0 would not have enabled a shot:
\* loaded + transfer < ammoPerFire.  (A refused reload leaves the state as it
\* was, so the state after the press shows what the press saw.)
C7_RefusedReloadWasPointless ==
  (/\ lastOp = "onInputReload"
   /\ reloadTimer = "none"
   /\ emitted = <<>>
   /\ Transfer > 0) =>
     loadedAmmo + Transfer < props.ammoPerFire

\* C8: with ammoPerFire <= 0, a triggerAttack outside cooldown and fire delay is
\* accepted whatever loaded and reserve are, no attack or timer step changes
\* loaded or reserve, the out-of-ammo cue is never played, and triggerReload
\* changes nothing.
C8_UnlimitedAmmo ==
  [][props.ammoPerFire <= 0 =>
       /\ (lastOp' = "onInputAttack" /\ lastArg' = 1 /\ ~attackCooldown /\ ~fireDelay) =>
            Has(emitted', "accepted")
       /\ (lastOp' \in {"bulletBurstTimer", "autoAttackTimer"}
             /\ CalledTriggerAttack /\ ~fireDelay) =>
            Has(emitted', "accepted")
       /\ lastOp' \notin {"grantAmmo", "receiveOwnership"} =>
            loadedAmmo' = loadedAmmo /\ reserveAmmo' = reserveAmmo
       /\ ~Has(emitted', "outOfAmmoSFX")
       /\ triggerReload(This) = This
       /\ lastOp' = "reloadDelayTimer" =>
            Fields' = [Fields EXCEPT ![5] = "none"] /\ emitted' = <<>>]_vars

\* An attack press was accepted with unlimited ammo and nothing loaded.
C8_Witness ==
  /\ props.ammoPerFire <= 0
  /\ loadedAmmo = 0
  /\ reserveAmmo > 0
  /\ lastOp = "onInputAttack"
  /\ Has(emitted, "accepted")

\* C9: in scenario A, starting with loaded = L and ammoPerFire = a > 0, exactly
\* L div a presses are accepted, each taking a from loaded; the press after
\* them is rejected, emits no loadedAmmoChanged and plays the out-of-ammo cue.
\* With the default configuration (clip 10, max 30, loaded 10, reserve 20,
\* a = 1) that is 10 accepted presses, and the reload after the rejected 11th
\* leaves loaded = 10 and reserve = 10.
C9_ScenarioA ==
  /\ tally.accepted <= tally.startLoaded \div props.ammoPerFire
  /\ reloadTimer = "none" =>
       loadedAmmo = tally.startLoaded - tally.accepted * props.ammoPerFire
  /\ (lastOp = "onInputAttack" /\ lastArg = 1 /\ ~Has(emitted, "accepted")) =>
       /\ tally.accepted = tally.startLoaded \div props.ammoPerFire
       /\ ~Has(emitted, "loadedAmmoChanged")
       /\ Has(emitted, "outOfAmmoSFX")
  /\ (props = DefaultProps /\ lastOp = "onInputReload") =>
       /\ tally.accepted = 10
       /\ tally.fired = 10
       /\ loadedAmmo = 10
       /\ reserveAmmo = 10

\* The default configuration after ten shots, the rejected press and the reload.
C9_Witness ==
  /\ props = DefaultProps
  /\ lastOp = "onInputReload"
  /\ tally.accepted = DefaultStartingAmmo
  /\ tally.fired = DefaultStartingAmmo
  /\ Has(emitted, "reloadSFX")

\* C10: in scenario C with bulletBurstPerFire = n > 1, the single press leads to
\* exactly n shots: never more than n, every shot after the first fired by a
\* tick of the burst interval, each shot taking ammoPerFire, and n in all once
\* the burst interval has ended.
C10_BurstFiresExactlyN ==
  /\ tally.fired <= props.bulletBurstPerFire
  /\ tally.fired <= tally.accepted
  /\ (tally.fired >= 2 /\ Has(emitted, "fire")) => lastOp = "bulletBurstTimer"
  /\ (LimitedAmmo /\ ~props.autoReload) =>
       loadedAmmo = tally.startLoaded - tally.accepted * props.ammoPerFire
  /\ (tally.accepted >= 1 /\ ~fireDelay /\ ~bulletBurstTimer) =>
       tally.fired = props.bulletBurstPerFire

\* A burst of three with limited ammo has ended by its terminating tick, three
\* shots fired and ammo left over.
C10_Witness ==
  /\ props.bulletBurstPerFire = 3
  /\ LimitedAmmo
  /\ lastOp = "bulletBurstTimer"
  /\ ~bulletBurstTimer
  /\ tally.fired = 3
  /\ loadedAmmo > 0

\* C11: a burst started with limited ammo and loaded = L < n * ammoPerFire fires
\* exactly L div ammoPerFire shots in all, fires no burst shot with loaded below
\* ammoPerFire, and has its interval cancelled as soon as a shot leaves loaded
\* below ammoPerFire.
C11_BurstEndsWhenAmmoRunsOut ==
  /\ tally.fired <= tally.startLoaded \div props.ammoPerFire
  /\ (lastOp = "bulletBurstTimer" /\ Has(emitted, "fire")) =>
       /\ Has(emitted, "accepted")
       /\ emitted[1] = Cue("accepted")
       /\ emitted[2].ev = "loadedAmmoChanged"
       /\ emitted[2].previous >= props.ammoPerFire
  /\ (Has(emitted, "fire") /\ loadedAmmo < props.ammoPerFire) => ~bulletBurstTimer
  /\ (tally.accepted + Count(emitted, "outOfAmmoSFX") >= 1
        /\ ~fireDelay /\ ~bulletBurstTimer) =>
       tally.fired = tally.startLoaded \div props.ammoPerFire

\* A burst of three was cut short by its second shot: the tick that fired it
\* left less than a shot needs and cancelled the interval.
C11_Witness ==
  /\ props.bulletBurstPerFire = 3
  /\ lastOp = "bulletBurstTimer"
  /\ Has(emitted, "fire")
  /\ loadedAmmo < props.ammoPerFire
  /\ ~bulletBurstTimer
  /\ tally.fired = 2
  /\ tally.fired = tally.startLoaded \div props.ammoPerFire

\* C12: after onInputAttack(pressed = false) and until the next attack press,
\* no burst interval and no auto-fire interval is pending and no shot is
\* accepted, whatever the state the release arrived in, the fire confirmation
\* delay included.
C12_ReleaseStopsFiring ==
  ~attackHeld =>
    /\ ~bulletBurstTimer
    /\ ~autoAttackTimer
    /\ ~Has(emitted, "accepted")

(* A shot has just been fired with the input held and ammo for another. *)
ShotWithAmmoLeft ==
  /\ props.autoAttack
  /\ attackHeld
  /\ Has(emitted, "fire")
  /\ loadedAmmo >= props.ammoPerFire

(* A tick of the auto-fire interval has accepted a shot. *)
AutoFireAccepted ==
  /\ lastOp = "autoAttackTimer"
  /\ Has(emitted, "accepted")

C14_AttackIgnoredDuringFireDelay ==
  [][(fireDelay /\ CalledTriggerAttack) =>
       /\ loadedAmmo' = loadedAmmo
       /\ reserveAmmo' = reserveAmmo
       /\ fireDelay'
       /\ ~Has(emitted', "accepted")
       /\ ~Has(emitted', "fire")
       /\ attackCooldownTimer' = attackCooldownTimer]_vars

\* A tick of the auto-fire interval arrived during the fire confirmation delay
\* with ammo for another shot loaded, and was ignored.
C14_Witness ==
  /\ lastOp = "autoAttackTimer"
  /\ fireDelay
  /\ LimitedAmmo
  /\ loadedAmmo >= props.ammoPerFire
  /\ emitted = <<>>

\* C15: while the cooldown timer of the most recent shot is pending, no
\* triggerAttack from the attack input is accepted; only ticks of the burst and
\* auto-fire intervals fire before it elapses.
C15_NoInputShotDuringCooldown ==
  [][(attackCooldownTimer /\ lastOp' = "onInputAttack" /\ lastArg' = 1) =>
       ~Has(emitted', "accepted")]_vars

\* C16: with limited ammo and loaded < ammoPerFire, a triggerAttack leaves
\* loaded, reserve and the cooldown flag as they were (a tick has cleared the
\* flag before its call), starts no fire confirmation delay and no cooldown
\* timer, fires no shot and plays the out-of-ammo cue; an attack press rejected
\* by the cooldown with loaded >= ammoPerFire plays no cue.
C16_OutOfAmmoAttackIsNoOp ==
  [][/\ (LimitedAmmo /\ loadedAmmo < props.ammoPerFire /\ CalledTriggerAttack) =>
          /\ loadedAmmo' = loadedAmmo
          /\ reserveAmmo' = reserveAmmo
          /\ attackCooldown' = (attackCooldown /\ lastOp' = "onInputAttack")
          /\ fireDelay' = fireDelay
          /\ attackCooldownTimer' = attackCooldownTimer
          /\ ~Has(emitted', "accepted")
          /\ ~Has(emitted', "fire")
          /\ Count(emitted', "outOfAmmoSFX") = 1
     /\ (lastOp' = "onInputAttack" /\ lastArg' = 1 /\ attackCooldown
           /\ loadedAmmo >= props.ammoPerFire) =>
          /\ ~Has(emitted', "accepted")
          /\ ~Has(emitted', "outOfAmmoSFX")]_vars

\* An attack press during the cooldown, with ammo for a shot loaded, was
\* rejected without the cue.
C16_Witness ==
  /\ lastOp = "onInputAttack"
  /\ lastArg = 1
  /\ attackCooldown
  /\ attackCooldownTimer
  /\ LimitedAmmo
  /\ loadedAmmo >= props.ammoPerFire
  /\ emitted = <<>>

\* C17: the ammo of a shot is deducted when the shot is accepted, before its
\* finishFiring, its launch and the projectile's callback: in the handler that
\* accepts, the loaded decrement comes right after the acceptance and before
\* any firing; at every moment loaded is the starting load less ammoPerFire for
\* each accepted shot, fired or not, resolved or not; finishFiring comes only
\* for accepted shots and projectiles only from fired ones; and the steps that
\* fire a delayed shot or deliver a projectile callback leave loaded and
\* reserve alone.
C17_AmmoDeductedAtAcceptance ==
  /\ [](/\ \A i \in 1..Len(emitted) :
               emitted[i].ev = "accepted" =>
                 /\ i < Len(emitted)
                 /\ emitted[i + 1] =
                      Ev("loadedAmmoChanged", loadedAmmo, loadedAmmo + props.ammoPerFire)
         /\ loadedAmmo = tally.startLoaded - tally.accepted * props.ammoPerFire
         /\ tally.fired <= tally.accepted
         /\ projectiles <= tally.fired)
  /\ [][lastOp' \in {"fireDelayTimer", "onProjHit", "onProjMiss"} =>
          /\ loadedAmmo' = loadedAmmo
          /\ reserveAmmo' = reserveAmmo
          /\ tally'.accepted = tally.accepted]_vars

\* The callback of a projectile arrived after a later shot had been accepted
\* and its ammo deducted.
C17_Witness ==
  /\ lastOp = "onProjHit"
  /\ tally.accepted = 2
  /\ tally.fired = 1
  /\ projectiles = 0
  /\ loadedAmmo = tally.startLoaded - 2 * props.ammoPerFire

\* C18: while the weapon is released (from onGrabEnd until the next grab), no
\* shot is fired and no ammo is consumed, whatever was in progress when the
\* release arrived.
C18_NoShotWhileReleased ==
  ~grabbed =>
    /\ ~Has(emitted, "fire")
    /\ ~Has(emitted, "accepted")

(* None of the five timers is pending. *)
NoTimerPending ==
  /\ ~attackCooldownTimer
  /\ ~bulletBurstTimer
  /\ ~autoAttackTimer
  /\ reloadTimer = "none"
  /\ ~fireDelay

\* C19: right after onGrabEnd and right after dispose none of the five timers
\* is pending: cooldown, burst interval, auto-fire interval, reload, fire
\* confirmation delay.
C19_NoTimerAfterReleaseOrDispose ==
  lastOp \in {"onGrabEnd", "dispose"} => NoTimerPending

\* C20: right after transferOwnership no timer is pending and the firing state
\* machine is idle, in whatever state the transfer was invoked.
C20_TransferCancelsFiring ==
  lastOp = "transferOwnership" =>
    /\ NoTimerPending
    /\ ~attackCooldown
    /\ currentBurstCount = 0

(* The calls that change the weapon: attacks, reloads, grants, timer callbacks. *)
MutatingCalls ==
  {"onInputAttack", "onInputReload", "grantAmmo", "fireDelayTimer",
   "attackCooldownTimer", "bulletBurstTimer", "autoAttackTimer",
   "reloadDelayTimer", "reloadWindowTimer"}

\* C21: a mutating call that arrives after transferOwnership, before any
\* receiveOwnership, is rejected: it changes neither loaded nor reserve and
\* fires no shot.
C21_CallsRejectedDuringHandOff ==
  [][(lastOp = "transferOwnership" /\ lastOp' \in MutatingCalls) =>
       /\ loadedAmmo' = loadedAmmo
       /\ reserveAmmo' = reserveAmmo
       /\ ~Has(emitted', "fire")]_vars

C27_GrantAmmo ==
  [][\A amount \in Amounts :
       (grabbed /\ Becomes(grantAmmo(This, amount), "grantAmmo", 0)) =>
         LET granted == Clamp(reserveAmmo + amount, 0, props.maxAmmo - loadedAmmo)
             reloads == props.autoReload /\ loadedAmmo < props.ammoPerFire
             reloaded == triggerReload([This EXCEPT !.reserveAmmo = granted])
         IN /\ reloads => /\ loadedAmmo' = reloaded.loadedAmmo
                          /\ reserveAmmo' = reloaded.reserveAmmo
                          /\ reloadTimer' = reloaded.reloadTimer
            /\ ~reloads => /\ loadedAmmo' = loadedAmmo
                           /\ reserveAmmo' = granted
                           /\ ~Has(emitted', "reloadSFX")
            /\ loadedAmmo + reserveAmmo <= props.maxAmmo =>
                 loadedAmmo' + reserveAmmo' <= props.maxAmmo
            /\ loadedAmmo' + reserveAmmo' > props.maxAmmo =>
                 loadedAmmo' + reserveAmmo' <= loadedAmmo + reserveAmmo]_vars

\* A grant to a weapon with an empty clip and autoReload set reloaded it.
C27_Witness ==
  /\ lastOp = "grantAmmo"
  /\ props.autoReload
  /\ Has(emitted, "reloadSFX")
  /\ Has(emitted, "reserveAmmoChanged")
  /\ loadedAmmo >= props.ammoPerFire

\* C26: while the 1000ms timer of a successful reload is pending, a call of
\* triggerAttack fires no shot and consumes no ammo.
C26_NoShotDuringReloadWindow ==
  [][(reloadTimer = "window" /\ CalledTriggerAttack) =>
       /\ ~Has(emitted', "accepted")
       /\ ~Has(emitted', "fire")
       /\ loadedAmmo' = loadedAmmo]_vars

(* A shot has just emptied the clip of a weapon with autoReload. *)
ShotEmptiedClip ==
  /\ LimitedAmmo
  /\ props.autoReload
  /\ Has(emitted, "fire")
  /\ loadedAmmo = 0

C22_HandOffRoundTrip ==
  [][lastOp' = "handOff" =>
       /\ loadedAmmo' = loadedAmmo
       /\ reserveAmmo' = reserveAmmo
       /\ impactFX' = impactFX
       /\ missFX' = missFX]_vars

\* A weapon with loaded and reserve ammo and both pools has been handed off.
C22_Witness ==
  /\ lastOp = "handOff"
  /\ loadedAmmo > 0
  /\ reserveAmmo > 0
  /\ Len(impactFX) > 0
  /\ Len(missFX) > 0

\* C29: a weapon with neither raycaster nor projectile launcher fires as
\* any other (an attack that can be made is accepted, an accepted one costs
\* its ammo and starts the cooldown, a fired shot schedules the cooldown
\* timer and the auto-reload), but no step sends takeDamage, triggers an
\* impact or miss group or launches a projectile.
C29_NoHitDetectionWithoutPrimitive ==
  [][(~props.raycaster /\ ~props.projectileLauncher) =>
       /\ ~Has(emitted', "takeDamage")
       /\ ~Has(emitted', "impactFX")
       /\ ~Has(emitted', "missFX")
       /\ playing' = {}
       /\ projectiles' = 0
       /\ nextImpactFXIdx' = nextImpactFXIdx
       /\ nextMissFXIdx' = nextMissFXIdx
       /\ (lastOp' = "onInputAttack" /\ lastArg' = 1 /\ canAttack(This) /\ ~fireDelay) =>
            Has(emitted', "accepted")
       /\ Has(emitted', "accepted") =>
            /\ attackCooldown'
            /\ LimitedAmmo => loadedAmmo' = loadedAmmo - props.ammoPerFire
       /\ Has(emitted', "fire") =>
            /\ attackCooldownTimer'
            /\ (props.autoReload /\ loadedAmmo' = 0) => reloadTimer' = "delay"
            /\ (props.autoAttack /\ attackHeld' /\ loadedAmmo' >= props.ammoPerFire) =>
                 autoAttackTimer']_vars

\* A weapon with neither primitive and both pools delivered has fired.
C29_Witness ==
  /\ ~props.raycaster
  /\ ~props.projectileLauncher
  /\ Has(emitted, "fire")
  /\ LimitedAmmo
  /\ attackCooldownTimer
  /\ Len(impactFX) > 0
  /\ Len(missFX) > 0

\* C24: transferOwnership stops every handle of every impact and miss
\* group, asks the asset spawner (when one is configured) to make the new
\* player its owning player, and returns a snapshot equal to the current
\* loaded, reserve, impact groups and miss groups; it changes neither loaded
\* nor reserve nor the pools and emits no ammo-changed notification.
C24_TransferOwnershipFrame ==
  [][lastOp' = "transferOwnership" =>
       /\ \A i \in 1..Len(impactFX) : impactFX[i] \cap playing' = {}
       /\ \A i \in 1..Len(missFX) : missFX[i] \cap playing' = {}
       /\ Has(emitted', "setOwningPlayer") <=> props.assetSpawner
       /\ GunState(transferOwnership(This)) =
            [loadedAmmo |-> loadedAmmo, reserveAmmo |-> reserveAmmo,
             impactFX |-> impactFX, missFX |-> missFX]
       /\ \E i \in 1..Len(emitted') :
            emitted'[i] = Ev("GunState", loadedAmmo, reserveAmmo)
       /\ loadedAmmo' = loadedAmmo
       /\ reserveAmmo' = reserveAmmo
       /\ impactFX' = impactFX
       /\ missFX' = missFX
       /\ ~Has(emitted', "loadedAmmoChanged")
       /\ ~Has(emitted', "reserveAmmoChanged")]_vars

\* The weapon of a configuration with an asset spawner, which has played
\* groups of both pools, has been transferred: nothing is playing.
C24_Witness ==
  /\ lastOp = "transferOwnership"
  /\ props.assetSpawner
  /\ Has(emitted, "setOwningPlayer")
  /\ nextImpactFXIdx > 0
  /\ nextMissFXIdx > 0
  /\ playing = {}

\* C28: the hit-detection mode is fixed by the configuration: a handler that
\* fires a shot runs fireWithRaycast alone when a raycaster is configured
\* (with or without a launcher), fireWithProjectile alone when only a
\* launcher is, and neither when neither is; no other handler runs either.
C28_HitModeFixedByConfiguration ==
  /\ Count(emitted, "fire") <= 1
  /\ Count(emitted, "fireWithRaycast") =
       (IF props.raycaster THEN Count(emitted, "fire") ELSE 0)
  /\ Count(emitted, "fireWithProjectile") =
       (IF ~props.raycaster /\ props.projectileLauncher
          THEN Count(emitted, "fire") ELSE 0)
  /\ ~props.projectileLauncher => projectiles = 0
  /\ (Has(emitted, "fire") /\ ~props.raycaster) =>
       /\ ~Has(emitted, "takeDamage")
       /\ ~Has(emitted, "impactFX")
       /\ ~Has(emitted, "missFX")

\* A weapon with both a raycaster and a launcher has fired: by the trace.
C28_Witness ==
  /\ props.raycaster
  /\ props.projectileLauncher
  /\ Has(emitted, "fire")
  /\ Has(emitted, "fireWithRaycast")
  /\ projectiles > 0

\* C30: no double hits: the shots fired have caused at most one takeDamage
\* each (a projectile in flight has not caused its own yet); with a
\* raycaster only the trace of a firing handler sends damage, never a
\* projectile callback; with a launcher alone only the hit-player and
\* hit-entity callbacks send damage, never the hit-world or the miss one.
C30_NoDoubleHits ==
  /\ tally.damage + (IF props.raycaster THEN 0 ELSE projectiles) <= tally.fired
  /\ Count(emitted, "takeDamage") <= 1
  /\ (props.raycaster /\ Has(emitted, "takeDamage")) =>
       /\ Has(emitted, "fireWithRaycast")
       /\ lastOp \notin {"onProjHit", "onProjHitWorld", "onProjMiss"}
  /\ (~props.raycaster /\ Has(emitted, "takeDamage")) =>
       /\ props.projectileLauncher
       /\ lastOp = "onProjHit"

\* The projectile of a weapon with both primitives has hit a target the
\* trace had already hit: one shot, one takeDamage, the impact effect played.
C30_Witness ==
  /\ props.raycaster
  /\ props.projectileLauncher
  /\ lastOp = "onProjHit"
  /\ Has(emitted, "impactFX")
  /\ tally.fired = 1
  /\ tally.damage = 1

\* C36: currentBurstCount is never negative, and it is 0 whenever no burst
\* interval is pending.
C36_BurstCountNeverNegative ==
  /\ currentBurstCount >= 0
  /\ ~bulletBurstTimer => currentBurstCount = 0

\* C40: a reload press while a reload timer is pending (the 500ms delay or
\* the 1000ms window) changes no field and emits nothing; a reload press that
\* is refused or gated cancels neither a running burst nor auto-fire; a
\* successful one leaves no burst interval and no auto-fire interval.
C40_ReloadTimerGatesReload ==
  [][/\ lastOp' = "onInputReload" =>
       /\ reloadTimer # "none" => (Fields' = Fields /\ emitted' = <<>>)
       /\ ~Has(emitted', "reloadSFX") =>
            /\ bulletBurstTimer' = bulletBurstTimer
            /\ autoAttackTimer' = autoAttackTimer
            /\ currentBurstCount' = currentBurstCount
            /\ Fields' = Fields
       /\ Has(emitted', "reloadSFX") =>
            /\ reloadTimer = "none"
            /\ reloadTimer' = "window"
            /\ ~bulletBurstTimer'
            /\ ~autoAttackTimer'
            /\ currentBurstCount' = 0
     /\ (lastOp' = "grantAmmo" /\ reloadTimer # "none") =>
          /\ loadedAmmo' = loadedAmmo
          /\ reloadTimer' = reloadTimer
          /\ bulletBurstTimer' = bulletBurstTimer
          /\ autoAttackTimer' = autoAttackTimer
          /\ ~Has(emitted', "reloadSFX")]_vars

\* A reload press during the 1000ms window of the reload before, with the
\* burst interval running and rounds to move: nothing happened.
C40_Witness ==
  /\ lastOp = "onInputReload"
  /\ reloadTimer = "window"
  /\ bulletBurstTimer
  /\ emitted = <<>>
  /\ LimitedAmmo
  /\ Min(props.clipSize - loadedAmmo, reserveAmmo) >= props.ammoPerFire

(* The steps that call getImpactFX and getMissFX: a call by itself, the   *)
(* projectile callbacks and the trace of a weapon without a launcher.     *)
CalledGetImpactFX ==
  \/ lastOp' \in {"getImpactFX", "onProjHit", "onProjHitWorld"}
  \/ /\ Has(emitted', "fireWithRaycast")
     /\ ~props.projectileLauncher
     /\ raycastHit # "none"

CalledGetMissFX ==
  \/ lastOp' \in {"getMissFX", "onProjMiss"}
  \/ /\ Has(emitted', "fireWithRaycast")
     /\ ~props.projectileLauncher
     /\ raycastHit = "none"

(* What a call that takes the next group of pool, at index next, leaves. *)
TookNextGroup(pool, next, nextAfter, name) ==
  IF Len(pool) = 0
    THEN /\ nextAfter = next
         /\ playing' = playing
         /\ ~Has(emitted', name)
    ELSE LET index == next % Len(pool)
         IN /\ index \in 0..(Len(pool) - 1)
            /\ nextAfter = index + 1
            /\ nextAfter % Len(pool) = (index + 1) % Len(pool)
            /\ playing' = playing \cup pool[index + 1]
            /\ Has(emitted', name)

\* C33: on a non-empty pool of n groups getImpactFX (getMissFX) takes
\* groups[nextIndex mod n], an index within 0..n-1 also after the pool was
\* replaced by a shorter one, and leaves the index one past it, so that
\* consecutive calls go through the groups in list order, each once in n
\* calls; the group is stopped before it is played again; on an empty pool
\* the call returns nothing and leaves the index as it was.
C33_RoundRobinPool ==
  [][/\ CalledGetImpactFX =>
          TookNextGroup(impactFX, nextImpactFXIdx, nextImpactFXIdx', "impactFX")
     /\ CalledGetMissFX =>
          TookNextGroup(missFX, nextMissFXIdx, nextMissFXIdx', "missFX")
     /\ nextImpactFXIdx' # nextImpactFXIdx => CalledGetImpactFX
     /\ nextMissFXIdx' # nextMissFXIdx => CalledGetMissFX]_vars

\* Every group of a full impact pool is playing and the call before took
\* the first group: the index has wrapped.
C33_Witness ==
  /\ lastOp = "getImpactFX"
  /\ Len(impactFX) = MaxGroups
  /\ Handles(impactFX) \subseteq playing
  /\ nextImpactFXIdx = 1

\* C34: syncFX asks for the despawn of exactly the handles of the old pool
\* that the new pool does not hold, when an asset spawner is configured; it
\* sends no request when there is none (as when a pool is synced with
\* itself), and the pool afterwards is the new one.
C34_SyncDespawnsDifference ==
  [][/\ \A effects \in FXLists("impactFX") :
          Becomes(syncImpactFX(This, effects), "syncImpactFX", 0) =>
            /\ impactFX' = effects
            /\ despawned' =
                 (IF props.assetSpawner
                    THEN Handles(impactFX) \ Handles(effects) ELSE {})
            /\ Has(emitted', "despawnAssets") <=> despawned' # {}
            /\ Count(emitted', "despawnAssets") <= 1
            /\ missFX' = missFX
     /\ \A effects \in FXLists("missFX") :
          Becomes(syncMissFX(This, effects), "syncMissFX", 0) =>
            /\ missFX' = effects
            /\ despawned' =
                 (IF props.assetSpawner
                    THEN Handles(missFX) \ Handles(effects) ELSE {})
            /\ Has(emitted', "despawnAssets") <=> despawned' # {}
            /\ Count(emitted', "despawnAssets") <= 1
            /\ impactFX' = impactFX]_vars

\* A pool of one group has replaced a longer one that held the same group:
\* a despawn was requested.
C34_Witness ==
  /\ lastOp = "syncImpactFX"
  /\ props.assetSpawner
  /\ Has(emitted, "despawnAssets")
  /\ Len(impactFX) = 1

\* C31 as stated: in hitscan mode the trace of every shot decides its
\* outcome: a hit triggers the impact effect group and dispatches a damage
\* event, a non-hit triggers the miss effect group and dispatches no damage,
\* and exactly one of the two happens.
C31_TraceDecidesOutcome ==
  [][Has(emitted', "fireWithRaycast") =>
       /\ raycastHit # "none" =>
            /\ Count(emitted', "impactFX") = 1
            /\ Count(emitted', "takeDamage") = 1
            /\ ~Has(emitted', "missFX")
       /\ raycastHit = "none" =>
            /\ Count(emitted', "missFX") = 1
            /\ ~Has(emitted', "takeDamage")
            /\ ~Has(emitted', "impactFX")]_vars

\* C31 amended: in hitscan mode the trace of every shot decides its outcome.
\* Damage is dispatched, once, exactly when the trace hit a player or an
\* entity; a hit on static geometry and a non-hit dispatch none.  Without a
\* launcher a hit triggers the next impact group and a non-hit the next miss
\* group, when the pool holds one, and never both; with a launcher the trace
\* triggers no group and launches one projectile instead.
C31_TraceDecidesOutcomeAmended ==
  [][Has(emitted', "fireWithRaycast") =>
       /\ Count(emitted', "fireWithRaycast") = 1
       /\ Count(emitted', "takeDamage") = (IF raycastHit = "Target" THEN 1 ELSE 0)
       /\ Count(emitted', "impactFX") =
            (IF ~props.projectileLauncher /\ raycastHit # "none" /\ Len(impactFX) > 0
               THEN 1 ELSE 0)
       /\ Count(emitted', "missFX") =
            (IF ~props.projectileLauncher /\ raycastHit = "none" /\ Len(missFX) > 0
               THEN 1 ELSE 0)
       /\ projectiles' = projectiles + (IF props.projectileLauncher THEN 1 ELSE 0)]_vars

\* A trace without a launcher hit static geometry: the impact effect played
\* and no damage was sent.
C31_Witness ==
  /\ props.raycaster
  /\ ~props.projectileLauncher
  /\ Has(emitted, "fireWithRaycast")
  /\ Has(emitted, "impactFX")
  /\ ~Has(emitted, "takeDamage")

\* C35 as stated: every accepted shot is resolved exactly once: in every
\* state the accepted shots less the finishFiring executions are 0 or 1, and
\* 1 exactly while the fire confirmation delay is pending; unless the weapon
\* is disposed an accepted shot eventually reaches finishFiring.
C35_AcceptedShotResolvedOnce ==
  /\ [](/\ tally.accepted - tally.fired \in {0, 1}
        /\ tally.accepted - tally.fired = 1 <=> fireDelay)
  /\ (tally.accepted > tally.fired) ~> (tally.accepted = tally.fired \/ disposed)

\* C35 amended: the same, with the count being 1 exactly while the delay is
\* pending in every state of a weapon that is not disposed; dispose clears
\* the delay and leaves the count of a pending shot at 1.
C35_AcceptedShotResolvedOnceUnlessDisposed ==
  /\ [](/\ tally.accepted - tally.fired \in {0, 1}
        /\ ~disposed => (tally.accepted - tally.fired = 1 <=> fireDelay)
        /\ fireDelay => tally.accepted - tally.fired = 1)
  /\ [][tally'.fired \in {tally.fired, tally.fired + 1}]_vars
  /\ (tally.accepted > tally.fired) ~> (tally.accepted = tally.fired \/ disposed)

\* The delayed shot of a weapon not on a VR device has reached finishFiring
\* after an earlier shot had.
C35_Witness ==
  /\ lastOp = "fireDelayTimer"
  /\ ~props.ownerIsVR
  /\ ~disposed
  /\ tally.accepted = 2
  /\ tally.fired = 2

(* A shot has just left a held weapon with autoReload with less than       *)
(* ammoPerFire loaded while triggerReload, called with no reload timer      *)
(* pending, would reload.                                                   *)
ShotLeftTooLittle ==
  /\ Has(emitted, "fire")
  /\ props.autoReload
  /\ grabbed
  /\ ~disposed
  /\ LimitedAmmo
  /\ loadedAmmo < props.ammoPerFire
  /\ Min(props.clipSize - loadedAmmo, reserveAmmo) >= props.ammoPerFire
  /\ reloadTimer # "window"

(* A reload that no input of the player asked for. *)
AutomaticReload ==
  /\ lastOp \in {"reloadDelayTimer", "grantAmmo"}
  /\ Has(emitted, "reloadSFX")

\* C39: with autoReload and the weapon held, whenever a shot leaves
\* loaded < ammoPerFire (not only loaded = 0) and a manual triggerReload
\* would succeed, an automatic reload eventually happens without any input
\* of the player, unless the weapon is released or disposed first.
C39_AutoReloadWheneverTooLittle ==
  ShotLeftTooLittle ~> (AutomaticReload \/ ~grabbed \/ disposed)

(* The handle fields and whether each holds a handle. *)
TimerFields ==
  [attackCooldownTimer |-> attackCooldownTimer, reloadTimer |-> reloadTimer # "none",
   autoAttackTimer |-> autoAttackTimer, fireDelay |-> fireDelay,
   bulletBurstTimer |-> bulletBurstTimer]

\* C38: no orphaned timers: for each handle field (cooldown, fire
\* confirmation delay, burst interval, auto-fire interval, reload) at most one
\* timer of the engine is pending, and one is pending exactly when the field
\* holds a handle: no handler overwrites or drops the handle of a timer that
\* has neither fired nor been cleared, so every pending timer can still be
\* cancelled through its field.
C38_NoOrphanedTimers ==
  \A field \in DOMAIN TimerFields :
    async[field] = (IF TimerFields[field] THEN 1 ELSE 0)

\* A tick of the burst interval fired the shot that emptied the clip: the
\* cooldown timeout was set anew, the reload delay was scheduled and the
\* interval was cleared.
C38_Witness ==
  /\ lastOp = "bulletBurstTimer"
  /\ Has(emitted, "fire")
  /\ async.attackCooldownTimer = 1
  /\ async.reloadTimer = 1
  /\ reloadTimer = "delay"
  /\ async.bulletBurstTimer = 0

\* C37: at most one grantAmmo handler is connected at any time and none
\* remains after onGrabEnd; and a single grantAmmo event raises the ammo of
\* the weapon (the reserve, and what an automatic reload moved from it into
\* the clip) by at most its amount, also when onGrabStart has run once for
\* each hand.
C37_OneGrantAmmoHandler ==
  [][/\ connected'.handlers <= 1
     /\ lastOp' = "onGrabEnd" => connected'.handlers = 0
     /\ lastOp' = "grantAmmo" =>
          (loadedAmmo' + reserveAmmo') - (loadedAmmo + reserveAmmo) <= lastArg']_vars

\* C32: authority-once spawning: spawn controllers are added only by an
\* instance running on the server, authSpawnFX on any other instance adds
\* none; whatever the order of server starts, changes of owner and spawn
\* completions, the spawner holds at most one spawn controller for each
\* effect asset; and the pools of an instance that does not run on the
\* server change only on the syncImpactFX or syncMissFX event and on
\* receiveOwnership of the hand-off snapshot.
C32_AuthorityOnceSpawning ==
  [][/\ Len(spawners') > Len(spawners) => owner' = "server"
     /\ (lastOp' = "authSpawnFX" /\ owner # "server") => spawners' = spawners
     /\ \A asset \in FXAssets :
          Cardinality({i \in 1..Len(spawners') : spawners'[i].asset = asset}) <= 1
     /\ (owner' # "server" /\ <<impactFX', missFX'>> # <<impactFX, missFX>>) =>
          lastOp' \in {"syncImpactFX", "syncMissFX", "receiveOwnership"}]_vars

\* The spawn of the impact asset completed while a client owned the entity,
\* the sync event reached the instance of the client, and the server, owner
\* again later, holds one controller for each asset still.
C32_Witness ==
  /\ owner = "server"
  /\ lastOp = "receiveOwnership"
  /\ Len(spawners) = 2
  /\ spawners[1].spawned
  /\ ~spawners[1].own
  /\ Len(impactFX) = 1

====
